---- MODULE Spec2Model ----
(***************************************************************************)
(* Cache-Augmented Generation core of KnowledgePersistence-AI.             *)
(*                                                                         *)
(* Three variants of the core live in the repository and are modelled side *)
(* by side, selected by the variable  mode :                               *)
(*   "direct"      cag_engine.py + cag_cache_warmer.py +                   *)
(*                 cag_context_manager.py        (scoring mode A)          *)
(*   "mcp"         cag_mcp_integrated.py         (scoring mode B)          *)
(*   "components"  src/cag_components.py         (warmer and context       *)
(*                 manager only, no engine)                                *)
(*                                                                         *)
(* Conventions.                                                            *)
(*  - A priority p in [0,1] is the integer p * PScale; every coefficient   *)
(*    of the scorers divides PScale, so the arithmetic is exact.           *)
(*  - A token count is kept in tenths: count_tokens is 13 * words.         *)
(*  - A string is a sequence of word lengths (words separated by single    *)
(*    blanks); a text is a sequence of lines, a line a record of what it   *)
(*    was formatted from and its number of whitespace-separated words.     *)
(*  - created_at is kept as the age of the item in whole days.             *)
(*  - One action of a task runs from one await of a knowledge-client call  *)
(*    to the next, as the event loop does.                                 *)
(***************************************************************************)
EXTENDS Integers, Sequences, FiniteSets, TLC

VARIABLES
  mode,                  \* which variant was constructed
  max_context_tokens,    \* CAGContextManager.max_context_tokens
  has_db,                \* db_config was given (direct, components)
  pattern_recognizer,    \* CacheWarmingEngine.pattern_recognizer is set
  store,                 \* ids of the knowledge_items rows of the store
  history,               \* session_complete_data: session -> exchanges
  warm_cache,            \* CacheWarmingEngine.warm_cache: key -> entry
  session_cache_warmed,  \* CAGEngine.session_cache_warmed: session -> stats
  performance_metrics,   \* CAGEngine.performance_metrics
  task,                  \* the coroutines in flight, one record per task
  warm_invocations,      \* history: calls of warm_cache_for_session per session
  registry_writes,       \* history: writes of session_cache_warmed per session
  envelopes,             \* history: envelopes returned, in order of return
  loaded,                \* history: the latest result of load_context_for_query
  calls,                 \* history: operations started so far, per session
  failures,              \* history: knowledge-client failures so far
  scoring,               \* an item, the clock and what the scorer returned for it
  retrieved,             \* the latest result of get_cached_knowledge
  clock,                 \* what time.time() and datetime.now() show, in ticks
  breaker                \* a CircuitBreaker, with what can_execute returned last

vars == <<mode, max_context_tokens, has_db, pattern_recognizer, store, history,
          warm_cache, session_cache_warmed, performance_metrics, task,
          warm_invocations, registry_writes, envelopes, loaded, calls, failures,
          scoring, retrieved, clock, breaker>>

-----------------------------------------------------------------------------
(* Bounds of the model. *)

MaxStore    == 2   \* rows in the knowledge store
MaxCalls    == 2   \* operations started in one run
MaxFailures == 1   \* knowledge-client failures in one run
NumTasks    == 2   \* coroutines that may be in flight together
HugeWords   == 50000 \* words of the longest message a session history holds

Tasks    == 1..NumTasks
Sessions == {"S1", "S2"}

-----------------------------------------------------------------------------
(* Small helpers. *)

Max(a, b) == IF a >= b THEN a ELSE b
Min(a, b) == IF a <= b THEN a ELSE b

RECURSIVE SumSeq(_)
SumSeq(s) == IF s = <<>> THEN 0 ELSE Head(s) + SumSeq(Tail(s))

RECURSIVE Flatten(_)
Flatten(ss) == IF ss = <<>> THEN <<>> ELSE Head(ss) \o Flatten(Tail(ss))

Take(s, n) == SubSeq(s, 1, Min(n, Len(s)))      \* s[:n]
LastN(s, n) == SubSeq(s, Max(1, Len(s) - n + 1), Len(s))   \* s[-n:]

Range(s) == {s[i] : i \in 1..Len(s)}

Only(S) == CHOOSE x \in S : TRUE      \* the element of a one-element set

-----------------------------------------------------------------------------
(* The enumerations. *)

\* ContextLayer, in declaration order (the order  for layer in ContextLayer ).
ContextLayer == <<"system", "project", "session", "domain",
                  "experience", "strategic", "dynamic", "response">>
Layers == Range(ContextLayer)

\* str.upper() on the layer names.
Upper(l) ==
  CASE l = "system"     -> "SYSTEM"
    [] l = "project"    -> "PROJECT"
    [] l = "session"    -> "SESSION"
    [] l = "domain"     -> "DOMAIN"
    [] l = "experience" -> "EXPERIENCE"
    [] l = "strategic"  -> "STRATEGIC"
    [] l = "dynamic"    -> "DYNAMIC"
    [] l = "response"   -> "RESPONSE"

\* KnowledgeType(value) of cag_components.py: the values the enum accepts.
KnowledgeTypeValues == {"factual", "procedural", "contextual", "relational",
                        "experiential", "technical", "patterns", "strategic"}

-----------------------------------------------------------------------------
(* The knowledge store.  Rows are drawn from a fixed pool; the store of a  *)
(* run is a subset of the pool of at most MaxStore rows.                   *)

Row(i, t, cat, imp, use, age, kw, ttl, cnt) ==
  [id |-> i, knowledge_type |-> t, category |-> cat, importance_score |-> imp,
   usage_count |-> use, age |-> age, kw |-> kw, title |-> ttl, content |-> cnt]

Pool ==
  <<Row(1, "procedural",          "implementation", 40, 5,  0, TRUE,  <<5, 4>>, <<3, 8, 2>>),
    Row(2, "relational",          "database",       10, 0, 40, FALSE, <<7>>,    <<4, 4>>),
    Row(3, "experiential",        "testing",        90, 4, 10, TRUE,  <<6, 2>>, <<250, 3>>),
    Row(4, "contextual",          "general",        50, 1, 35, FALSE, <<4>>,    <<>>),
    Row(5, "technical_discovery", "database",       75, 6,  5, FALSE, <<9>>,    <<5>>),
    Row(6, "factual",             "knowledge",      95, 2,  1, TRUE,  <<3, 3>>, <<199, 4>>)>>

PoolIds == 1..Len(Pool)
Stores  == {S \in SUBSET PoolIds : Cardinality(S) <= MaxStore}

\* ORDER BY created_at DESC: the youngest row first.
RECURSIVE ByCreatedDesc(_)
ByCreatedDesc(S) ==
  IF S = {} THEN <<>>
  ELSE LET i == CHOOSE x \in S : \A y \in S : Pool[x].age <= Pool[y].age
       IN  <<Pool[i]>> \o ByCreatedDesc(S \ {i})

\* SELECT ... WHERE P ORDER BY created_at DESC LIMIT n
Select(S, P(_), n) == Take(ByCreatedDesc({i \in S : P(Pool[i])}), n)

-----------------------------------------------------------------------------
(* The rows as each variant's queries return them.  dict.get(key, default) *)
(* is Get; a column that a query does not select is absent from the row.   *)

Get(item, key, default) == IF key \in DOMAIN item THEN item[key] ELSE default

\* SELECT id, knowledge_type, category, title, content, created_at
DirectRow(r) ==
  [id |-> r.id, knowledge_type |-> r.knowledge_type, category |-> r.category,
   title |-> r.title, content |-> r.content, age |-> r.age]

\* what the tools return: importance_score is carried, access_count is not
McpRow(r) ==
  [id |-> r.id, knowledge_type |-> r.knowledge_type, category |-> r.category,
   title |-> r.title, content |-> r.content, age |-> r.age,
   importance_score |-> r.importance_score]

\* SELECT id, title, content, knowledge_type, semantic_type,
\*        importance_score, usage_count, created_at
ComponentsRow(r) ==
  [id |-> r.id, knowledge_type |-> r.knowledge_type,
   title |-> r.title, content |-> r.content, age |-> r.age,
   importance_score |-> r.importance_score, usage_count |-> r.usage_count]

MapSeq(s, F(_)) == [i \in 1..Len(s) |-> F(s[i])]

-----------------------------------------------------------------------------
(* Priority scorer.  Values are in units of 1/PScale.                      *)

PScale == 60 * 100

cache_priority_threshold == (3 * PScale) \div 10      \* 0.3

\* 30 * max(0, 1 - days_old / 30)
Recency30(item) == Max(0, 30 - Get(item, "age", 0))

\* 10 * strategic_value of cag_cache_warmer.py
StrategicValue10(t) ==
  CASE t = "technical_discovery" -> 9
    [] t = "procedural"          -> 8
    [] t = "experiential"        -> 7
    [] t = "contextual"          -> 6
    [] t = "factual"             -> 5
    [] t = "relational"          -> 4
    [] OTHER                     -> 5

\* a scorer that gives every type the weight of an unknown one
UnknownTypeWeight10(t) == 5

\* 10 * type_weights of cag_cache_warmer.py and cag_mcp_integrated.py
TypeWeight10(t) ==
  CASE t = "procedural"          -> 9
    [] t = "technical_discovery" -> 8
    [] t = "experiential"        -> 7
    [] t = "contextual"          -> 6
    [] t = "factual"             -> 5
    [] t = "relational"          -> 4
    [] OTHER                     -> 5

\* 100 * type_weights of cag_components.py
TypeWeight100(t) ==
  CASE t = "procedural"   -> 90
    [] t = "technical"    -> 80
    [] t = "experiential" -> 70
    [] t = "strategic"    -> 85
    [] t = "contextual"   -> 60
    [] t = "patterns"     -> 80
    [] t = "factual"      -> 50
    [] t = "relational"   -> 40
    [] OTHER              -> 50

\* CacheWarmingEngine.calculate_cache_priority (cag_cache_warmer.py), mode A
PriorityDirect(item) ==
  LET t == Get(item, "knowledge_type", "factual")
      score == 60 * Recency30(item)                             \* recency * 0.3
             + 150 * StrategicValue10(t)                        \* strategic * 0.25
             + 150 * Min(10, Get(item, "access_count", 1))      \* frequency * 0.25
             + 120 * TypeWeight10(t)                            \* type_weight * 0.2
  IN  Min(PScale, score)

\* CAGCacheWarmerMCP.calculate_cache_priority, mode B
PriorityMcp(item) ==
  LET t == Get(item, "knowledge_type", "factual")
      score == 24 * Get(item, "importance_score", 50)           \* importance * 0.4
             + 180 * TypeWeight10(t)                            \* type_weight * 0.3
             + 60 * Recency30(item)                             \* recency * 0.3
  IN  Min(PScale, score)

\* CacheWarmingEngine.calculate_cache_priority (cag_components.py)
PriorityComponents(item) ==
  LET t == Get(item, "knowledge_type", "factual")
      score == 18 * Get(item, "importance_score", 50)           \* importance * 0.3
             + 18 * TypeWeight100(t)                            \* type_weight * 0.3
             + 120 * Min(10, Get(item, "usage_count", 0))       \* usage * 0.2
             + (IF "age" \in DOMAIN item                        \* recency * 0.2
                THEN 40 * Recency30(item) ELSE 0)
  IN  Min(PScale, score)

\* the direct scorer without its final min(1.0, priority_score)
PriorityUnclamped(m, item) ==
  LET t == Get(item, "knowledge_type", "factual")
  IN  60 * Recency30(item) + 150 * StrategicValue10(t)
      + 150 * Min(10, Get(item, "access_count", 1)) + 120 * TypeWeight10(t)

calculate_cache_priority(m, item) ==
  CASE m = "direct"     -> PriorityDirect(item)
    [] m = "mcp"        -> PriorityMcp(item)
    [] m = "components" -> PriorityComponents(item)

-----------------------------------------------------------------------------
(* Layer classifier. *)

\* CacheWarmingEngine.determine_cache_layer (cag_cache_warmer.py)
LayerDirect(item) ==
  LET t == Get(item, "knowledge_type", "factual")
  IN  IF t \in {"procedural", "technical_discovery"} THEN "domain"
      ELSE IF t = "experiential" THEN "experience"
      ELSE IF t = "contextual" THEN "session"
      ELSE "dynamic"

\* CAGCacheWarmerMCP.determine_cache_layer
LayerMcp(item) ==
  LET t == Get(item, "knowledge_type", "factual")
  IN  IF Get(item, "importance_score", 50) > 80 THEN "strategic"
      ELSE IF t \in {"procedural", "technical_discovery"} THEN "domain"
      ELSE IF t = "experiential" THEN "experience"
      ELSE IF t = "contextual" THEN "session"
      ELSE "dynamic"

\* CacheWarmingEngine.determine_cache_layer (cag_components.py)
LayerComponents(item) ==
  LET t == Get(item, "knowledge_type", "factual")
  IN  IF Get(item, "importance_score", 50) > 80 THEN "strategic"
      ELSE IF t \in {"procedural", "technical"} THEN "domain"
      ELSE IF t = "experiential" THEN "experience"
      ELSE IF t = "contextual" THEN "session"
      ELSE IF t = "patterns" THEN "dynamic"
      ELSE "response"

determine_cache_layer(m, item) ==
  CASE m = "direct"     -> LayerDirect(item)
    [] m = "mcp"        -> LayerMcp(item)
    [] m = "components" -> LayerComponents(item)

-----------------------------------------------------------------------------
(* The scorer and the classifier on items of any shape.  An item is a      *)
(* dictionary: a function from the keys it has to their values.  Its       *)
(* created_at is a day, the clock  now  a day as well (day 0 is the day    *)
(* the clock shows first), and the scorers read the difference             *)
(* (datetime.now() - created_at).days .                                    *)

NoItem == [x \in {} |-> 0]            \* {}

ItemFields(name, values) == {NoItem} \cup {name :> v : v \in values}

\* six types every scorer knows, one only cag_components.py knows, and one
\* that no variant knows
ScoreTypes == {"procedural", "technical_discovery", "experiential", "contextual",
               "factual", "relational", "patterns", "novel"}

\* created_at: long ago, inside the 30-day decay, now, and later than the clock
CreatedDays == {-45, -29, 0, 40}

\* the row's use counter is access_count for cag_cache_warmer.py and
\* usage_count for cag_components.py
ScoreItems ==
  {a @@ b @@ c @@ d :
     a \in ItemFields("knowledge_type", ScoreTypes),
     b \in ItemFields("importance_score", {0, 40, 80, 81, 100}),
     c \in {NoItem} \cup {("access_count" :> v) @@ ("usage_count" :> v) : v \in {0, 5, 25}},
     d \in ItemFields("created_at", CreatedDays)}

\* days_old = (datetime.now() - created_at).days, for an item that has a
\* created_at
AsOf(item, now) ==
  IF "created_at" \in DOMAIN item
  THEN item @@ ("age" :> (now - item.created_at))
  ELSE item

\* one call of calculate_cache_priority and determine_cache_layer, made when
\* the clock shows  now
Score(m, item, now) ==
  [priority |-> calculate_cache_priority(m, AsOf(item, now)),
   layer    |-> determine_cache_layer(m, AsOf(item, now)),
   at       |-> now]

-----------------------------------------------------------------------------
(* The warm cache.  The key f"{layer}:{id}" is the pair <<layer, id>>.     *)

CacheKey(layer, id) == <<layer, id>>

\* the cache_item dictionaries the loaders of the direct and mcp variants build
CacheItem(m, item, layer) ==
  [id |-> item.id, knowledge_type |-> item.knowledge_type,
   title |-> item.title, content |-> item.content,
   cache_priority |-> calculate_cache_priority(m, item),
   cache_layer |-> layer]

\* the insertion gate of preload_to_context (direct and mcp)
PassesGate(ci) == ci.cache_priority >= cache_priority_threshold

CacheEntry(ci, at) ==
  [content |-> ci.content, title |-> ci.title,
   knowledge_type |-> ci.knowledge_type, priority |-> ci.cache_priority,
   loaded_at |-> at]                                    \* datetime.now()

\* a cache with room for one entry: writing a key drops every other key
PutEvicting(cache, k, v) == [x \in {k} |-> v]

\* a cache that keeps the entry a key was first given
PutIfAbsent(cache, k, v) ==
  [x \in DOMAIN cache \cup {k} |-> IF x \in DOMAIN cache THEN cache[x] ELSE v]

\* self.warm_cache[cache_key] = {...}
Put(cache, k, v) ==[x \in DOMAIN cache \cup {k} |-> IF x = k THEN v ELSE cache[x]]

\* preload_to_context of cag_cache_warmer.py and cag_mcp_integrated.py
RECURSIVE PreloadGated(_, _, _)
PreloadGated(cache, items, at) ==
  IF items = <<>> THEN cache
  ELSE LET ci == Head(items)
           c1 == IF PassesGate(ci)
                 THEN Put(cache, CacheKey(ci.cache_layer, ci.id), CacheEntry(ci, at))
                 ELSE cache
       IN  PreloadGated(c1, Tail(items), at)

\* preload_to_context of cag_components.py: it scores and classifies the raw
\* rows itself, has no gate, and KnowledgeType(...) raises ValueError on a
\* type that is not a value of the enum, leaving the rows before it inserted.
RECURSIVE PreloadComponents(_, _, _)
PreloadComponents(cache, items, at) ==
  IF items = <<>> THEN [cache |-> cache, raised |-> FALSE]
  ELSE LET it == Head(items)
           ci == CacheItem("components", it, determine_cache_layer("components", it))
       IN  IF it.knowledge_type \notin KnowledgeTypeValues
           THEN [cache |-> cache, raised |-> TRUE]
           ELSE PreloadComponents(
                  Put(cache, CacheKey(ci.cache_layer, ci.id), CacheEntry(ci, at)),
                  Tail(items), at)

preload_to_context(m, cache, items, at) ==
  IF m = "components" THEN PreloadComponents(cache, items, at)
  ELSE [cache |-> PreloadGated(cache, items, at), raised |-> FALSE]

-----------------------------------------------------------------------------
(* The loaders of the warming phases.  S is the store.                     *)

\* sorted(items, key=..., reverse=True): stable, greatest key first
RECURSIVE InsertDesc(_, _)
InsertDesc(x, s) ==          \* x, s[i]: <<key, element>>
  IF s = <<>> THEN <<x>>
  ELSE IF Head(s)[1] >= x[1] THEN <<Head(s)>> \o InsertDesc(x, Tail(s))
  ELSE <<x>> \o s

RECURSIVE SortKeyed(_)
SortKeyed(s) ==
  IF s = <<>> THEN <<>>
  ELSE InsertDesc(s[Len(s)], SortKeyed(SubSeq(s, 1, Len(s) - 1)))

SortDesc(s, Key(_)) ==
  LET keyed  == [i \in 1..Len(s) |-> <<Key(s[i]), s[i]>>]
      sorted == SortKeyed(keyed)
  IN  [i \in 1..Len(s) |-> sorted[i][2]]

ByPriority(ci) == ci.cache_priority

\* self.warm_cache.items(): the keys of a cache, one after the other.  The
\* cache of the model keeps no insertion order; the keys are taken by id.
RECURSIVE KeysInOrder(_)
KeysInOrder(K) ==
  IF K = {} THEN <<>>
  ELSE LET k == CHOOSE x \in K : \A y \in K : x[2] <= y[2]
       IN  <<k>> \o KeysInOrder(K \ {k})

\* limit: int = 10 of get_cached_knowledge (cag_cache_warmer.py)
DefaultLimit == 10

\* k.startswith(f"{layer}:") / item.cache_layer == layer
InLayer(k, layer) == k[1] = layer

\* get_cached_knowledge(layer, limit): the keys of the entries it returns,
\* in the order it returns them.  layer "none" is layer=None.
\* cag_cache_warmer.py sorts by priority and cuts the list at limit;
\* cag_components.py sorts and returns the whole list.
get_cached_knowledge(m, cache, layer, limit) ==
  LET ks == KeysInOrder(IF layer # "none"
                        THEN {k \in DOMAIN cache : InLayer(k, layer)}
                        ELSE DOMAIN cache)
      sorted == SortKeyed([i \in 1..Len(ks) |-> <<cache[ks[i]].priority, ks[i]>>])
      keys == [i \in 1..Len(ks) |-> sorted[i][2]]
  IN  IF m = "components" THEN keys ELSE Take(keys, limit)

\* the user_context a caller passes: None, a dictionary with keywords, or a
\* dictionary whose keyword list is empty
UserContexts == {"none", "keywords", "empty"}

\* the sessions whose rows the ai_sessions join of cag_components.py links
RowSession(i) == IF i \in {2, 4} THEN "S1" ELSE IF i = 5 THEN "S2" ELSE "other"

IsCoreType(r)      == r.knowledge_type \in {"procedural", "technical_discovery", "experiential"}
IsStrategicType(r) == r.knowledge_type \in {"procedural", "technical_discovery"}
IsExperiential(r)  == r.knowledge_type = "experiential"
MatchesKeywords(r) == r.kw
AnyRow(r)          == TRUE

\* The tool-invocation client.  The relevance ranking of a search is the
\* store's business; the model returns the rows of the requested types,
\* youngest first.
search_knowledge(S, types, limit) ==
  LET P(r) == types = {} \/ r.knowledge_type \in types
  IN  MapSeq(Select(S, P, limit), McpRow)
get_contextual_knowledge(S, max_results) == MapSeq(Select(S, AnyRow, max_results), McpRow)
get_session_context(S, max_items) == MapSeq(Select(S, AnyRow, max_items), McpRow)

Classified(m, rows) ==
  LET F(r) == CacheItem(m, r, determine_cache_layer(m, r)) IN MapSeq(rows, F)
Pinned(m, rows, layer) ==
  LET F(r) == CacheItem(m, r, layer) IN MapSeq(rows, F)

\* load_core_knowledge
load_core_knowledge(m, S) ==
  CASE m = "direct" ->
         SortDesc(Classified(m, MapSeq(Select(S, IsCoreType, 20), DirectRow)), ByPriority)
    [] m = "mcp" ->
         SortDesc(Classified(m, get_contextual_knowledge(S, 20)), ByPriority)
    [] m = "components" ->
         LET P(r) == r.importance_score > 70
             K(r) == 1000 * r.importance_score + r.usage_count
         IN  MapSeq(Take(SortDesc(Select(S, P, Len(Pool)), K), 20), ComponentsRow)

\* predict_session_knowledge / _load_session_knowledge
predict_session_knowledge(m, S, sid, uc) ==
  CASE m = "direct" ->
         SortDesc(Classified(m, MapSeq(
           IF uc # "empty" THEN Select(S, MatchesKeywords, 15)
                           ELSE Select(S, AnyRow, 10), DirectRow)), ByPriority)
    [] m = "mcp" ->
         SortDesc(Classified(m, search_knowledge(S, {}, 15)), ByPriority)
    [] m = "components" ->
         LET InSession(r) == RowSession(r.id) = sid
         IN  MapSeq(Select(S, InSession, 15)
                      \o (IF uc # "empty" THEN Select(S, MatchesKeywords, 10) ELSE <<>>),
                    ComponentsRow)

\* pattern_predict_knowledge (cag_cache_warmer.py); rec: a recognizer is set
pattern_predict_knowledge(S, rec) ==
  IF ~rec THEN <<>>
  ELSE Pinned("direct", MapSeq(Select(S, IsExperiential, 5), DirectRow), "experience")

\* load_strategic_insights of the warmers
load_strategic_insights(m, S) ==
  IF m = "direct"
  THEN Pinned(m, MapSeq(Select(S, IsStrategicType, 8), DirectRow), "strategic")
  ELSE LET Important(r) == Get(r, "importance_score", 0) > 60
       IN  Pinned(m, SelectSeq(search_knowledge(S, {"procedural", "technical_discovery"}, 8),
                               Important), "strategic")

\* _load_predictive_knowledge (cag_components.py)
load_predictive_knowledge(S) ==
  LET P(r) == r.knowledge_type \in {"patterns", "procedural", "strategic"}
              /\ r.usage_count > 3
      K(r) == r.usage_count
  IN  MapSeq(Take(SortDesc(Select(S, P, Len(Pool)), K), 12), ComponentsRow)

\* the phases of warm_cache_for_session, in the order the code runs them
WarmPhases(m) ==
  CASE m = "direct"     -> <<"core", "session", "pattern", "strategic">>
    [] m = "mcp"        -> <<"core", "session", "strategic">>
    [] m = "components" -> <<"core", "session", "predictive">>

\* does the phase talk to the knowledge client (and so suspend, and may fail)?
PhaseFetches(m, ph, rec) == ~(m = "direct" /\ ph = "pattern" /\ ~rec)

\* the list a phase's loader returns
PhaseItems(m, ph, S, sid, uc, rec) ==
  CASE ph = "core"       -> load_core_knowledge(m, S)
    [] ph = "session"    -> predict_session_knowledge(m, S, sid, uc)
    [] ph = "pattern"    -> pattern_predict_knowledge(S, rec)
    [] ph = "strategic"  -> load_strategic_insights(m, S)
    [] ph = "predictive" -> load_predictive_knowledge(S)

-----------------------------------------------------------------------------
(* Strings and texts.                                                      *)

\* len(text.split()) of a text: the words of its lines
Words(text) == SumSeq([i \in 1..Len(text) |-> text[i].w])

\* a line that is a literal of the source, with its number of words
Line(kind, tag, id, cut, w) == [kind |-> kind, tag |-> tag, id |-> id, cut |-> cut, w |-> w]
Lit(str, w) == Line("lit", str, 0, 0, w)

\* s[:n] of a string s of words separated by single blanks: how many words
\* the prefix holds (a word cut in the middle counts) and whether the prefix
\* is empty or ends with a blank, so that text appended to it is a new word.
RECURSIVE CutFrom(_, _, _)
CutFrom(s, n, pos) ==        \* pos: index at which the word Head(s) starts
  IF s = <<>> \/ pos >= n THEN [words |-> 0, sep |-> TRUE]
  ELSE IF pos + Head(s) >= n \/ Tail(s) = <<>> THEN [words |-> 1, sep |-> FALSE]
  ELSE LET rest == CutFrom(Tail(s), n, pos + Head(s) + 1)
       IN  [words |-> 1 + rest.words, sep |-> rest.sep]
Cut(s, n) == CutFrom(s, n, 0)

\* words of  f"{s[:n]}..."  placed after a blank
EllipsisWords(s, n) == Cut(s, n).words + (IF Cut(s, n).sep THEN 1 ELSE 0)

\* words of  f"{title}:"  placed after a blank
ColonWords(title) == IF title = <<>> THEN 1 ELSE Len(title)

\* words a client's error message str(e) holds
ReasonWords == 2

\* f"<what> error: {str(e)}"  and its kin
Diagnostic(str, w) == Line("diagnostic", str, 0, 0, w + ReasonWords)

\* f"[{tag}] {title}: {content[:n]}..."
ItemLine(tag, item, n) ==
  Line("item", tag, item.id, n,
       1 + ColonWords(item.title) + EllipsisWords(item.content, n))

\* "\n".join(lines) if lines else alt
JoinOr(lines, alt) == IF lines = <<>> THEN <<alt>> ELSE lines

-----------------------------------------------------------------------------
(* Token estimator and the per-layer allocations.                          *)

\* count_tokens, in tenths of a token: len(text.split()) * 1.3, which
\* cag_components.py truncates to an integer
count_tokens(m, text) ==
  IF m = "components" THEN 10 * ((13 * Words(text)) \div 10)
  ELSE 13 * Words(text)

\* context_layers / layer_allocations, in tokens
Allocation(l) ==
  CASE l = "system"     -> 2000
    [] l = "project"    -> 8000
    [] l = "session"    -> 16000
    [] l = "domain"     -> 32000
    [] l = "experience" -> 24000
    [] l = "strategic"  -> 16000
    [] l = "dynamic"    -> 24000
    [] l = "response"   -> 6000

\* analyze_query_domains: a query is the set of table keywords it contains
DomainKeywords(m) ==
  <<[domain |-> "database",       keywords |-> {"database", "postgresql", "sql", "pgvector"}],
    [domain |-> "architecture",   keywords |-> {"architecture", "design", "system", "framework"}],
    [domain |-> "implementation", keywords |-> {"implement", "code", "develop", "build"}],
    [domain |-> "configuration",  keywords |-> {"config", "setup", "install", "deploy"}],
    [domain |-> "testing",        keywords |-> {"test", "validate", "verify", "debug"}],
    [domain |-> "knowledge",      keywords |-> {"knowledge", "learning", "pattern", "insight"}]>>
  \o (IF m = "mcp"
      THEN <<[domain |-> "mcp", keywords |-> {"mcp", "integration", "tools", "framework"}]>>
      ELSE <<>>)

analyze_query_domains(m, q) ==
  LET Hit(d) == d.keywords \cap q # {}
      Name(d) == d.domain
      found == MapSeq(SelectSeq(DomainKeywords(m), Hit), Name)
  IN  IF found = <<>> THEN <<"general">> ELSE found

\* the queries of the model, as the sets of table keywords they contain
Queries == {{}, {"implement"}, {"database", "test"}, {"framework"}}

-----------------------------------------------------------------------------
(* The persisted session histories of the direct variant.                  *)

Exchange(type, words) == [type |-> type, words |-> words]

NoHistory == [found |-> FALSE, chat |-> <<>>]

\* the rows of session_complete_data a run may hold for a session
HistoryRows ==
  {NoHistory,
   [found |-> TRUE, chat |-> <<>>],
   [found |-> TRUE, chat |-> <<Exchange("user_prompt", 3), Exchange("tool_use", 9),
                                Exchange("ai_response", 5)>>],
   [found |-> TRUE, chat |-> <<Exchange("user_prompt", HugeWords)>>],
   [found |-> TRUE, chat |-> [i \in 1..12 |->
                      Exchange(IF i % 2 = 1 THEN "user_prompt" ELSE "ai_response", i)]]}

-----------------------------------------------------------------------------
(* The layer loaders of the direct and mcp context managers.  Each returns *)
(* [body, raised]: the layer's text, or raised when the exception of the   *)
(* client leaves the loader.  ok: the client call succeeds.                *)

Body(text) == [body |-> text, raised |-> FALSE]
Raised     == [body |-> <<>>, raised |-> TRUE]

load_system_instructions(m) ==
  IF m = "direct"
  THEN <<Lit("CAG-Enabled AI Assistant with KnowledgePersistence-AI integration.", 6),
         Lit("Revolutionary Cache-Augmented Generation system providing instant knowledge access.", 8),
         Lit("Strategic partnership capabilities with continuous learning and pattern recognition.", 9)>>
  ELSE <<Lit("CAG-MCP Integrated AI Assistant with KnowledgePersistence-AI.", 6),
         Lit("Revolutionary Cache-Augmented Generation using standardized MCP framework.", 8),
         Lit("Strategic partnership capabilities with unified knowledge access.", 7)>>

\* f"- {item['title']}: {item['content'][:100]}..."
ProjectItemLine(item) ==
  Line("item", "-", item.id, 100,
       1 + ColonWords(item.title) + EllipsisWords(item.content, 100))

load_project_context(m, S, ok) ==
  IF m = "direct"
  THEN Body(<<Lit("Project: KnowledgePersistence-AI", 2),
              Lit("Status: Phase 5 - CAG Implementation Active", 7),
              Lit("Architecture: PostgreSQL + pgvector, 336+ knowledge items", 7),
              Lit("Framework: Complete session storage, redirection analysis operational", 7),
              Lit("Current Focus: Cache-Augmented Generation implementation", 5)>>)
  ELSE IF ~ok THEN Raised          \* get_session_context is not guarded here
  ELSE Body(<<Lit("Project: KnowledgePersistence-AI", 2),
              Lit("Status: Phase 5 - CAG-MCP Integration Active", 7),
              Lit("Framework: MCP-integrated knowledge persistence", 4)>>
            \o MapSeq(get_session_context(S, 5), ProjectItemLine))

\* f"USER: {content}" / f"AI: {content}"
ExchangeLines(chat) ==
  LET Spoken(x) == x.type \in {"user_prompt", "ai_response"}
      F(x) == Line("exchange", IF x.type = "user_prompt" THEN "USER:" ELSE "AI:",
                   0, 0, 1 + x.words)
  IN  MapSeq(SelectSeq(chat, Spoken), F)

\* f"Previous: {item['content'][:100]}..."
PreviousLine(item) == Line("item", "Previous:", item.id, 100, 1 + EllipsisWords(item.content, 100))

load_session_history(m, S, row, db, ok) ==
  IF m = "direct"
  THEN IF ~db THEN Body(<<Lit("Session history unavailable - no database connection", 7)>>)
       ELSE IF ~ok THEN Body(<<Diagnostic("Session history error:", 3)>>)
       ELSE IF row.found THEN Body(LastN(ExchangeLines(row.chat), 10))
       ELSE Body(<<Lit("No session history found", 4)>>)
  ELSE IF ~ok THEN Body(<<Diagnostic("Session history unavailable:", 3)>>)
       ELSE LET IsContextual(i) == i.knowledge_type = "contextual"
                lines == MapSeq(SelectSeq(get_session_context(S, 10), IsContextual),
                                PreviousLine)
            IN  Body(JoinOr(LastN(lines, 5), Lit("New session - no previous history", 6)))

load_domain_knowledge(m, S, domains, db, ok) ==
  LET InDomain(r) == r.category \in Range(domains)
      F(r) == ItemLine(r.knowledge_type, r, 200)
      rows == IF m = "direct" THEN Select(S, InDomain, 10)
              ELSE search_knowledge(S, {"procedural", "technical_discovery"}, 10)
  IN  IF m = "direct" /\ ~db
      THEN Body(<<Lit("Domain knowledge unavailable - no database connection", 7)>>)
      ELSE IF ~ok THEN Body(<<Diagnostic("Domain knowledge error:", 3)>>)
      ELSE Body(JoinOr(MapSeq(rows, F), Lit("No domain knowledge found", 4)))

load_relevant_experience(m, S, db, ok) ==
  LET F(r) == ItemLine(IF m = "direct" THEN r.category ELSE "Experience", r, 150)
      rows == IF m = "direct" THEN Select(S, IsExperiential, 5)
              ELSE SelectSeq(get_contextual_knowledge(S, 5), IsExperiential)
  IN  IF m = "direct" /\ ~db
      THEN Body(<<Lit("Experience memory unavailable - no database connection", 7)>>)
      ELSE IF ~ok THEN Body(<<Diagnostic("Experience memory error:", 3)>>)
      ELSE Body(JoinOr(MapSeq(rows, F), Lit("No experience memory available", 4)))

load_strategic_context(m, S, db, ok) ==
  LET F(r) == ItemLine(IF m = "direct" THEN r.knowledge_type ELSE "Strategic", r, 150)
      Important(r) == Get(r, "importance_score", 0) > 60
      rows == IF m = "direct" THEN Select(S, IsStrategicType, 5)
              ELSE SelectSeq(search_knowledge(S, {"procedural", "technical_discovery"}, 5),
                             Important)
  IN  IF m = "direct" /\ ~db
      THEN Body(<<Lit("Strategic insights unavailable - no database connection", 7)>>)
      ELSE IF ~ok THEN Body(<<Diagnostic("Strategic insights error:", 3)>>)
      ELSE Body(JoinOr(MapSeq(rows, F), Lit("No strategic insights available", 4)))

\* the least remaining budget, in tokens, for which dynamic content is fetched
DynamicThreshold == 1000

LimitedSpace == Lit("Limited space for dynamic content", 5)

\* available: the remaining budget in tenths of a token
load_dynamic_content(m, S, available, db, ok) ==
  LET F(r) == ItemLine(r.knowledge_type, r, 100)
      rows == IF m = "direct" THEN Select(S, AnyRow, 3) ELSE search_knowledge(S, {}, 3)
  IN  IF available < 10 * DynamicThreshold THEN Body(<<LimitedSpace>>)
      ELSE IF m = "direct" /\ ~db THEN Body(<<Lit("Dynamic content unavailable", 3)>>)
      ELSE IF ~ok THEN Body(<<Diagnostic("Dynamic content error:", 3)>>)
      ELSE Body(MapSeq(rows, F))

-----------------------------------------------------------------------------
(* The layer loaders of the context manager of cag_components.py.  They    *)
(* read three more tables: projects, ai_sessions and strategic_insights.   *)

\* the row of projects: found or not, and the words of its three columns
ProjectRows == {[found |-> FALSE, display |-> 0, desc |-> 0, settings |-> 0, owns |-> FALSE],
                [found |-> TRUE,  display |-> 1, desc |-> 4, settings |-> 1, owns |-> FALSE],
                [found |-> TRUE,  display |-> 1, desc |-> 4, settings |-> 1, owns |-> TRUE]}

\* the matching rows of strategic_insights: none, or one with a three-word
\* title and a six-word description
InsightRows == {<<>>, <<[id |-> 1, title |-> <<4, 4, 4>>, content |-> <<3, 3, 3, 3, 3, 3>>,
                        knowledge_type |-> "opportunity"]>>}

\* f"- [{tag}] {title}\n"  and  f"  {content[:n]}...\n"
HeadLine(tag, item) == Line("head", tag, item.id, 0, 2 + Len(item.title))
TailLine(item, n)   == Line("tail", "", item.id, n, EllipsisWords(item.content, n))

RECURSIVE TwoLines(_, _, _)
TwoLines(rows, tagged, n) ==
  IF rows = <<>> THEN <<>>
  ELSE LET r == Head(rows)
       IN  <<HeadLine(IF tagged THEN r.knowledge_type ELSE "", r)>>
           \o <<TailLine(r, n)>> \o TwoLines(Tail(rows), tagged, n)

\* f"- {title}\n" of the experience layer has no tag: one word less
Untagged(lines) ==
  [i \in 1..Len(lines) |->
     IF lines[i].kind = "head" THEN [lines[i] EXCEPT !.w = @ - 1] ELSE lines[i]]

load_system_context ==
  <<Lit("CAG System - Cache-Augmented Generation", 5),
    Lit("- Pattern Intelligence Architecture", 4),
    Lit("- Semantic Knowledge Classification", 4),
    Lit("- Context-Aware Knowledge Retrieval", 4),
    Lit("- Multi-layer Context Management", 4),
    Lit("- Error Recovery and Graceful Degradation", 6),
    Lit("", 0),
    Lit("Current Session: Knowledge Persistence AI System", 6),
    Lit("Capabilities: Pattern extraction, semantic search, strategic insights", 7)>>

components_project_context(S, project, db, ok) ==
  LET F(r) == HeadLine(r.knowledge_type, r)
      recent == IF project.owns THEN Select(S, AnyRow, 3) ELSE <<>>
  IN  IF ~db THEN <<Lit("Project context unavailable - no database configuration", 7)>>
      ELSE IF ~ok THEN <<Lit("Project context unavailable due to error", 6)>>
      ELSE IF ~project.found THEN <<Lit("Project context not available", 4)>>
      ELSE <<Line("project", "Project:", 0, 0, 1 + project.display),
             Line("project", "Description:", 0, 0, 1 + project.desc),
             Line("project", "Settings:", 0, 0, 1 + project.settings)>>
           \o (IF recent = <<>> THEN <<>>
               ELSE <<Lit("Recent Project Activity:", 3)>> \o MapSeq(recent, F))

components_session_context(S, sid, known, db, ok) ==
  LET InSession(r) == RowSession(r.id) = sid
      F(r) == Line("item", "-", r.id, 100, 1 + EllipsisWords(r.title, 100))
      recent == Select(S, InSession, 5)
  IN  IF ~db THEN <<Line("session", "Session context unavailable - no database configuration:",
                         0, 0, 8)>>
      ELSE IF ~ok THEN <<Line("session", "Session context unavailable:", 0, 0, 4)>>
      ELSE IF ~known THEN <<Line("session", "New session:", 0, 0, 3)>>
      ELSE <<Line("session", "Session:", 0, 0, 2), Line("session", "Started:", 0, 0, 3),
             Line("session", "Interactions:", 0, 0, 2)>>
           \o (IF recent = <<>> THEN <<>>
               ELSE <<Lit("Recent Session Knowledge:", 3)>> \o MapSeq(recent, F))

components_domain_context(S, db, ok) ==
  LET K(r) == r.importance_score
      items == Take(SortDesc(Select(S, MatchesKeywords, Len(Pool)), K), 10)
  IN  IF ~db THEN <<Lit("Domain context unavailable - no database configuration", 7)>>
      ELSE IF ~ok THEN <<Lit("Domain context unavailable due to error", 6)>>
      ELSE IF items = <<>> THEN <<Lit("No relevant domain knowledge found", 5)>>
      ELSE <<Lit("Domain Knowledge:", 2)>> \o TwoLines(items, TRUE, 150)

components_experience_context(S, db, ok) ==
  LET K(r) == r.importance_score
      P(r) == IsExperiential(r) /\ MatchesKeywords(r)
      items == Take(SortDesc(Select(S, P, Len(Pool)), K), 5)
  IN  IF ~db THEN <<Lit("Experience context unavailable - no database configuration", 7)>>
      ELSE IF ~ok THEN <<Lit("Experience context unavailable", 3)>>
      ELSE IF items = <<>> THEN <<Lit("No relevant experience found", 4)>>
      ELSE <<Lit("Experience Context:", 2)>> \o Untagged(TwoLines(items, FALSE, 100))

components_strategic_context(insights, db, ok) ==
  IF ~db THEN <<Lit("Strategic context unavailable - no database configuration", 7)>>
  ELSE IF ~ok THEN <<Lit("Strategic context unavailable", 3)>>
  ELSE IF insights = <<>> THEN <<Lit("No strategic insights found", 4)>>
  ELSE <<Lit("Strategic Insights:", 2)>> \o TwoLines(insights, TRUE, 100)

BudgetExhausted == Lit("Dynamic context: Token budget exhausted", 5)

\* the loop of _load_dynamic_context: an item is appended unless the text
\* with it would count more tokens than remain, and then the loop ends
RECURSIVE WithinBudget(_, _, _)
WithinBudget(text, items, remaining) ==
  IF items = <<>> THEN text
  ELSE LET more == text \o TwoLines(<<Head(items)>>, TRUE, 100)
       IN  IF count_tokens("components", more) > remaining THEN text
           ELSE WithinBudget(more, Tail(items), remaining)

\* remaining: max_tokens less the tokens of the layers loaded so far, in
\* tenths of a token; it may be negative
components_dynamic_context(S, remaining, db, ok) ==
  LET P(r) == r.knowledge_type \in {"procedural", "technical", "patterns"}
              /\ MatchesKeywords(r)
      items == Select(S, P, 3)
  IN  IF remaining < 10 * DynamicThreshold THEN <<BudgetExhausted>>
      ELSE IF ~db THEN <<Lit("Dynamic context unavailable - no database configuration", 7)>>
      ELSE IF ~ok THEN <<Lit("Dynamic context unavailable", 3)>>
      ELSE IF items = <<>> THEN <<Lit("No additional context found", 4)>>
      ELSE WithinBudget(<<Lit("Additional Context:", 2)>>, items, remaining)

-----------------------------------------------------------------------------
(* load_context_for_query: the seven layers in order, then compile_context.*)

\* the layers load_context_for_query loads, in the order it loads them
LoadOrder == SubSeq(ContextLayer, 1, 7)

\* what a request finds outside the manager: the store, the session's rows,
\* the query's keywords, and the rows of the other tables
Env(S, sid, q, row, project, known, insights) ==
  [S |-> S, sid |-> sid, q |-> q, row |-> row, project |-> project,
   known |-> known, insights |-> insights]

\* sum of count_tokens over the layers loaded so far, in tenths of a token
RECURSIVE UsedTokens(_, _, _)
UsedTokens(m, context, ls) ==
  IF ls = {} THEN 0
  ELSE LET l == CHOOSE x \in ls : TRUE
       IN  count_tokens(m, context[l]) + UsedTokens(m, context, ls \ {l})

\* calculate_remaining_tokens, in tenths of a token; cag_components.py
\* computes the difference inside _load_dynamic_context and does not clamp it
calculate_remaining_tokens(m, maxTokens, context) ==
  LET left == 10 * maxTokens - UsedTokens(m, context, DOMAIN context)
  IN  IF m = "components" THEN left ELSE Max(0, left)

\* the loader of layer l, run with the layers loaded before it in context
LoadLayer(m, l, e, db, maxTokens, context, ok) ==
  IF m = "components"
  THEN Body(CASE l = "system"     -> load_system_context
              [] l = "project"    -> components_project_context(e.S, e.project, db, ok)
              [] l = "session"    -> components_session_context(e.S, e.sid, e.known, db, ok)
              [] l = "domain"     -> components_domain_context(e.S, db, ok)
              [] l = "experience" -> components_experience_context(e.S, db, ok)
              [] l = "strategic"  -> components_strategic_context(e.insights, db, ok)
              [] l = "dynamic"    ->
                   components_dynamic_context(e.S,
                     calculate_remaining_tokens(m, maxTokens, context), db, ok))
  ELSE CASE l = "system"     -> Body(load_system_instructions(m))
         [] l = "project"    -> load_project_context(m, e.S, ok)
         [] l = "session"    -> load_session_history(m, e.S, e.row, db, ok)
         [] l = "domain"     ->
              load_domain_knowledge(m, e.S, analyze_query_domains(m, e.q), db, ok)
         [] l = "experience" -> load_relevant_experience(m, e.S, db, ok)
         [] l = "strategic"  -> load_strategic_context(m, e.S, db, ok)
         [] l = "dynamic"    ->
              load_dynamic_content(m, e.S,
                calculate_remaining_tokens(m, maxTokens, context), db, ok)

\* does the loader of layer l call the client (so that it may fail)?
LayerFetches(m, l, db, maxTokens, context) ==
  /\ l # "system"
  /\ m = "direct" => l # "project"
  /\ m # "mcp" => db
  /\ l = "dynamic" =>
       calculate_remaining_tokens(m, maxTokens, context) >= 10 * DynamicThreshold

\* f"=== {layer_name.upper()} CONTEXT ==="; the mcp variant adds a word
Header(m, l) ==
  IF m = "mcp" THEN Line("header (MCP-INTEGRATED)", Upper(l), 0, 0, 5)
  ELSE Line("header", Upper(l), 0, 0, 4)

BlankLine == Lit("", 0)

\* compile_context: for layer in ContextLayer, the layers present and truthy
RECURSIVE CompileFrom(_, _, _)
CompileFrom(m, context, ls) ==
  IF ls = <<>> THEN <<>>
  ELSE LET l == Head(ls)
       IN  (IF l \in DOMAIN context /\ context[l] # <<>>
            THEN <<Header(m, l)>> \o context[l] \o <<BlankLine>>
            ELSE <<>>)
           \o CompileFrom(m, context, Tail(ls))

\* a compiler that forgets the header lines
CompileWithoutHeaders(m, context) ==
  LET NotHeader(x) == x.kind # Header(m, "system").kind
  IN  SelectSeq(CompileFrom(m, context, ContextLayer), NotHeader)

compile_context(m, context) == CompileFrom(m, context, ContextLayer)

EmptyContext == [l \in {} |-> <<>>]

\* load_context_for_query with oks[l] telling whether layer l's client call
\* succeeds: [context, full, raised]
RECURSIVE LoadFrom(_, _, _, _, _, _, _)
LoadFrom(m, e, db, maxTokens, oks, context, ls) ==
  IF ls = <<>>
  THEN [context |-> context, full |-> compile_context(m, context), raised |-> FALSE]
  ELSE LET l == Head(ls)
           Go(r) == IF r.raised THEN [context |-> context, full |-> <<>>, raised |-> TRUE]
                    ELSE LoadFrom(m, e, db, maxTokens, oks, Put(context, l, r.body),
                                  Tail(ls))
       IN  Only({Go(r) : r \in {LoadLayer(m, l, e, db, maxTokens, context, oks[l])}})

load_context_for_query(m, e, db, maxTokens, oks) ==
  LoadFrom(m, e, db, maxTokens, oks, EmptyContext, LoadOrder)

\* the layers of ls that precede layer l in the load order
Before(context, l) ==
  LET idx == CHOOSE i \in 1..Len(LoadOrder) : LoadOrder[i] = l
      prior == {LoadOrder[j] : j \in 1..(idx - 1)} \cap DOMAIN context
  IN  [x \in prior |-> context[x]]

\* a set F of failing layers is possible for a load with result r when each
\* layer of F was reached and its loader called the client
PossibleFailures(m, F, db, maxTokens, r) ==
  /\ \A l \in F : /\ LayerFetches(m, l, db, maxTokens, Before(r.context, l))
                  /\ l \in DOMAIN r.context \/ (r.raised /\ m = "mcp" /\ l = "project")
  /\ r.raised => "project" \in F

-----------------------------------------------------------------------------
(* The engine: tasks, registry, metrics.                                   *)

ZeroStats == [phases_completed |-> 0, items_loaded |-> 0, cache_size |-> 0, error |-> FALSE]

NoEnvelope ==
  [op |-> "none", stats |-> ZeroStats,
   session |-> "none", raised |-> FALSE, context_loaded |-> FALSE,
   context_size_tokens |-> 0, cached_knowledge_items |-> 0, cache_hit |-> FALSE,
   ordinal |-> 0, failed |-> {}, full_context |-> <<>>,
   domain |-> "none", success |-> FALSE, context_layers |-> [l \in {} |-> FALSE],
   cancelled_at |-> "none"]

IdleTask ==
  [pc |-> "idle", op |-> "none", session |-> "none", query |-> {}, uc |-> "none",
   ordinal |-> 0, phase |-> 0, stats |-> ZeroStats, envelope |-> NoEnvelope]

NoLoad == [context |-> EmptyContext, full |-> <<>>, raised |-> FALSE, failed |-> {}]

EmptyCache == [k \in {} |-> NoEnvelope]

RECURSIVE SumOver(_, _)
SumOver(f, D) ==
  IF D = {} THEN 0
  ELSE LET x == CHOOSE y \in D : TRUE IN f[x] + SumOver(f, D \ {x})

\* no item has been handed to the scorer; the clock shows day 0
NoScoring == [item |-> NoItem, now |-> 0, results |-> <<>>]

\* get_cached_knowledge has not been called
NotRetrieved == [layer |-> "none", items |-> <<>>, from |-> EmptyCache, called |-> FALSE]

\* no method of the breaker has been called
NotCalled == [op |-> "none", from |-> "closed", returned |-> TRUE, elapsed |-> 0]

\* CircuitBreaker.__init__; last_failure_time is <<>> for None and <<t>> for
\* the time t.  last is history: the latest call, the state it found, and
\* for can_execute what it returned and the time it measured
NewBreaker(failure_threshold, recovery_timeout) ==
  [failure_threshold |-> failure_threshold, recovery_timeout |-> recovery_timeout,
   failure_count |-> 0, last_failure_time |-> <<>>, state |-> "closed",
   last |-> NotCalled]

\* the state the constructors leave, for every variant and store
Constructed ==
  /\ warm_cache = EmptyCache
  /\ session_cache_warmed = [s \in {} |-> ZeroStats]
  /\ performance_metrics = [cache_hits |-> 0, cache_misses |-> 0, total_queries |-> 0]
  /\ task = [t \in Tasks |-> IdleTask]
  /\ warm_invocations = [s \in Sessions |-> 0]
  /\ registry_writes = [s \in Sessions |-> 0]
  /\ envelopes = <<>>
  /\ loaded = NoLoad
  /\ calls = [s \in Sessions |-> 0]
  /\ failures = 0
  /\ retrieved = NotRetrieved
  /\ clock = 0

\* the engines pass no pattern recognizer to their warmer and are given a
\* database configuration; max_tokens is left at its default
DefaultMaxTokens == 128000

Init ==
  /\ mode \in {"direct", "mcp", "components"}
  /\ max_context_tokens = DefaultMaxTokens
  /\ has_db = TRUE
  /\ pattern_recognizer = FALSE
  /\ store \in Stores
  /\ history = [s \in Sessions |->
                  IF s = "S1" THEN [found |-> TRUE, chat |->
                       <<Exchange("user_prompt", 3), Exchange("ai_response", 5)>>]
                  ELSE NoHistory]
  /\ scoring = NoScoring
  /\ breaker = NewBreaker(5, 60)
  /\ Constructed

\* the queries the engine is asked in the model
EngineQueries == {{"implement"}, {"database", "test"}}

\* the calls of warm_domain_cache made so far, each of which has returned
DomainCalls == Cardinality({i \in 1..Len(envelopes) :
                              envelopes[i].op = "warm_domain_cache"})

\* the operations started so far
Started == SumOver(calls, Sessions) + DomainCalls

\* a new coroutine takes the lowest free slot
FreeSlot(t) == /\ task[t].pc = "idle"
               /\ \A u \in Tasks : u < t => task[u].pc # "idle"

AllIdle == \A u \in Tasks : task[u].pc = "idle"

Bump(f, x) == [f EXCEPT ![x] = @ + 1]

\* if user_context is None: the default dictionary, which has keywords
DefaultContext(uc) == IF uc = "none" THEN "keywords" ELSE uc

\* an engine that keeps no record of the sessions it has warmed
NeverWarmed(registry, sid) == FALSE

\* ensure_cache_warmed: if session_id in self.session_cache_warmed: return
AlreadyWarmed(registry, sid) == sid \in DOMAIN registry

\* process_query up to its first suspension: ensure_cache_warmed tests the
\* registry and, for a session not in it, calls warm_cache_for_session, which
\* suspends in the client call of its first phase
StartQuery(t, sequential) ==
  /\ mode \in {"direct", "mcp"}
  /\ FreeSlot(t)
  /\ sequential => AllIdle
  /\ Started < MaxCalls
  /\ \E sid \in Sessions, q \in EngineQueries, uc \in UserContexts :
       LET warmed == AlreadyWarmed(session_cache_warmed, sid)
       IN  /\ task' = [task EXCEPT ![t] =
                 [IdleTask EXCEPT !.pc = IF warmed THEN "ctx" ELSE "warm",
                                  !.op = "process_query", !.session = sid,
                                  !.query = q, !.uc = DefaultContext(uc),
                                  !.ordinal = calls[sid] + 1,
                                  !.phase = IF warmed THEN 0 ELSE 1]]
           /\ warm_invocations' = IF warmed THEN warm_invocations
                                  ELSE Bump(warm_invocations, sid)
           /\ calls' = Bump(calls, sid)
  /\ UNCHANGED <<mode, max_context_tokens, has_db, pattern_recognizer, store, history,
                 clock, breaker,
                 scoring, retrieved,
                 warm_cache, session_cache_warmed, performance_metrics,
                 registry_writes, envelopes, loaded, failures>>

\* warm_cache_for_session called on the warmer itself (cag_components.py has
\* no engine in front of it)
StartWarm(t, sequential) ==
  /\ mode = "components"
  /\ FreeSlot(t)
  /\ sequential => AllIdle
  /\ Started < MaxCalls
  /\ \E sid \in Sessions, uc \in UserContexts :
       /\ task' = [task EXCEPT ![t] =
             [IdleTask EXCEPT !.pc = "warm", !.op = "warm", !.session = sid,
                              !.uc = DefaultContext(uc),
                              !.ordinal = calls[sid] + 1, !.phase = 1]]
       /\ warm_invocations' = Bump(warm_invocations, sid)
       /\ calls' = Bump(calls, sid)
  /\ UNCHANGED <<mode, max_context_tokens, has_db, pattern_recognizer, store, history,
                 clock, breaker,
                 scoring, retrieved,
                 warm_cache, session_cache_warmed, performance_metrics,
                 registry_writes, envelopes, loaded, failures>>

\* a warmer that returns after its first phase, leaving the rest unawaited
WarmDoneAfterFirstPhase(m, phase) == phase > 1

\* warm_cache_for_session returns once every phase has been awaited
WarmDone(m, phase) == phase > Len(WarmPhases(m))

\* the first phase from i on whose loader suspends in a client call
RECURSIVE NextFetching(_, _, _)
NextFetching(m, i, rec) ==
  IF WarmDone(m, i) \/ PhaseFetches(m, WarmPhases(m)[i], rec) THEN i
  ELSE NextFetching(m, i + 1, rec)

\* what a call that raised leaves its caller with
RaisedEnvelope(tk) ==
  [NoEnvelope EXCEPT !.op = tk.op, !.session = tk.session, !.raised = TRUE,
                     !.ordinal = tk.ordinal]

\* what warm_cache_for_session returns to a caller of the warmer
WarmResult(tk, stats) ==
  [NoEnvelope EXCEPT !.op = tk.op, !.session = tk.session, !.ordinal = tk.ordinal,
                     !.stats = stats]

\* an engine that records the session before it awaits the warmer
RecordedBeforeWarming(registry, tk) == Put(registry, tk.session, tk.stats)

\* the registry when warm_cache_for_session raised: the assignment to
\* session_cache_warmed[session_id] follows the await and is never reached
RegistryAfterRaise(registry, tk) == registry

\* One step of warm_cache_for_session: the client call of the current phase
\* completes, its items are preloaded, the phases that make no client call
\* run, and the task suspends in the next client call or the warmer
\* returns; ensure_cache_warmed then writes the registry and process_query
\* goes on to load the context.
WarmStep(t) ==
  /\ task[t].pc = "warm"
  /\ \E ok \in BOOLEAN :
       LET tk    == task[t]
           ph    == WarmPhases(mode)[tk.phase]
           items == IF ok THEN PhaseItems(mode, ph, store, tk.session, tk.uc,
                                          pattern_recognizer)
                    ELSE <<>>
           pre   == preload_to_context(mode, warm_cache, items, clock + 1)
           next  == NextFetching(mode, tk.phase + 1, pattern_recognizer)
           stats == [tk.stats EXCEPT
                       !.phases_completed = @ + (next - tk.phase),
                       !.items_loaded = @ + Len(items),
                       !.cache_size = IF WarmDone(mode, next)
                                      THEN Cardinality(DOMAIN pre.cache) ELSE @]
       IN  /\ ~ok => failures < MaxFailures
           /\ failures' = IF ok THEN failures ELSE failures + 1
           /\ IF ~ok /\ mode # "components"
              THEN \* the exception leaves the loader, the warmer and the engine
                   /\ task' = [task EXCEPT ![t] = IdleTask]
                   /\ envelopes' = Append(envelopes, RaisedEnvelope(tk))
                   /\ session_cache_warmed' =
                        RegistryAfterRaise(session_cache_warmed, tk)
                   /\ UNCHANGED <<warm_cache, registry_writes>>
              ELSE IF pre.raised
              THEN \* the except clause of warm_cache_for_session
                   /\ warm_cache' = pre.cache
                   /\ task' = [task EXCEPT ![t] = IdleTask]
                   /\ envelopes' = Append(envelopes,
                                     WarmResult(tk, [tk.stats EXCEPT !.error = TRUE]))
                   /\ UNCHANGED <<session_cache_warmed, registry_writes>>
              ELSE /\ warm_cache' = pre.cache
                   /\ IF ~WarmDone(mode, next)
                      THEN /\ task' = [task EXCEPT ![t].phase = next, ![t].stats = stats]
                           /\ UNCHANGED <<session_cache_warmed, registry_writes, envelopes>>
                      ELSE IF tk.op = "process_query"
                      THEN /\ session_cache_warmed' =
                                Put(session_cache_warmed, tk.session, stats)
                           /\ registry_writes' = Bump(registry_writes, tk.session)
                           /\ task' = [task EXCEPT ![t].pc = "ctx", ![t].phase = next,
                                                   ![t].stats = stats]
                           /\ UNCHANGED envelopes
                      ELSE /\ task' = [task EXCEPT ![t] = IdleTask]
                           /\ envelopes' = Append(envelopes, WarmResult(tk, stats))
                           /\ UNCHANGED <<session_cache_warmed, registry_writes>>
  /\ clock' = clock + 1   \* the awaited client call took its time
  /\ UNCHANGED <<mode, max_context_tokens, has_db, pattern_recognizer, store, history,
                 breaker,
                 scoring, retrieved,
                 performance_metrics, warm_invocations, loaded, calls>>

\* the sets of layers whose client call may fail in one load
FailureSets(n) == {F \in SUBSET Range(LoadOrder) : Cardinality(F) <= n}

Oks(F) == [l \in Range(LoadOrder) |-> l \notin F]

\* the rows of the other tables the engines' context managers never read
NoProject == [found |-> FALSE, display |-> 0, desc |-> 0, settings |-> 0, owns |-> FALSE]

\* an update that writes back counters read before another call's update:
\* every call stores "one query", and the earlier updates are lost
UpdateFromStaleRead(pm, cache_hit) ==
  [pm EXCEPT !.total_queries = 1,
             !.cache_hits = IF cache_hit THEN 1 ELSE 0,
             !.cache_misses = IF cache_hit THEN 0 ELSE 1]

\* _update_performance_metrics
update_performance_metrics(pm, cache_hit) ==
  [pm EXCEPT !.total_queries = @ + 1,
             !.cache_hits = IF cache_hit THEN @ + 1 ELSE @,
             !.cache_misses = IF cache_hit THEN @ ELSE @ + 1]

\* CAGEngine._analyze_context_layers: for each member of ContextLayer,
\* whether its marker line occurs in the compiled context
analyze_context_layers(m, full) == [l \in Layers |-> Header(m, l) \in Range(full)]

\* 'context_layers' of the response: cag_engine.py fills it, the response of
\* cag_mcp_integrated.py has no such key
ContextLayersOf(m, full) ==
  IF m = "direct" THEN analyze_context_layers(m, full) ELSE [l \in {} |-> FALSE]

\* the response process_query prepares once the context is loaded
Response(tk, r, F) ==
  [NoEnvelope EXCEPT
     !.op = tk.op, !.session = tk.session, !.ordinal = tk.ordinal,
     !.context_loaded = TRUE,
     !.context_size_tokens = count_tokens(mode, r.full),
     !.cached_knowledge_items = Cardinality(DOMAIN warm_cache),
     !.cache_hit = tk.session \in DOMAIN session_cache_warmed,
     !.failed = F, !.full_context = r.full,
     !.context_layers = ContextLayersOf(mode, r.full)]

\* The rest of process_query: load_context_for_query loads its layers (the
\* loaders read the store and nothing a task writes, so their suspensions
\* are not interleaving points of the model), the response is prepared from
\* the cache and the registry as they are then, and the metrics are updated.
\* The direct engine returns; the mcp engine suspends in store_knowledge.
LoadContext(t) ==
  /\ task[t].pc = "ctx"
  /\ \E F \in FailureSets(MaxFailures - failures) :
     \E r \in {load_context_for_query(mode,
                 Env(store, task[t].session, task[t].query, history[task[t].session],
                     NoProject, FALSE, <<>>),
                 has_db, max_context_tokens, Oks(F))} :
     \E rs \in {Response(task[t], r, F)} :
       LET tk == task[t]
       IN  /\ PossibleFailures(mode, F, has_db, max_context_tokens, r)
           /\ failures' = failures + Cardinality(F)
           /\ loaded' = [context |-> r.context, full |-> r.full,
                         raised |-> r.raised, failed |-> F]
           /\ IF r.raised
              THEN /\ task' = [task EXCEPT ![t] = IdleTask]
                   /\ envelopes' = Append(envelopes,
                                     [RaisedEnvelope(tk) EXCEPT !.failed = F])
                   /\ UNCHANGED performance_metrics
              ELSE /\ performance_metrics' =
                        update_performance_metrics(performance_metrics, rs.cache_hit)
                   /\ IF mode = "mcp"
                      THEN /\ task' = [task EXCEPT ![t].pc = "store", ![t].envelope = rs]
                           /\ UNCHANGED envelopes
                      ELSE /\ task' = [task EXCEPT ![t] = IdleTask]
                           /\ envelopes' = Append(envelopes, rs)
  /\ UNCHANGED <<mode, max_context_tokens, has_db, pattern_recognizer, store, history,
                 clock, breaker,
                 scoring, retrieved,
                 warm_cache, session_cache_warmed, warm_invocations, registry_writes,
                 calls>>

\* a write-back whose failure is not caught: the exception leaves process_query
StoreOutcomeRaising(tk, ok) == IF ok THEN tk.envelope ELSE RaisedEnvelope(tk)

\* what process_query hands its caller after _store_interaction_via_mcp: the
\* except clause catches a failure of store_knowledge, prints it, and the
\* response prepared before the write-back is returned
StoreOutcome(tk, ok) == tk.envelope

\* _store_interaction_via_mcp: the write-back completes or fails, and
\* process_query returns
StoreStep(t) ==
  /\ task[t].pc = "store"
  /\ \E ok \in BOOLEAN :
       /\ ~ok => failures < MaxFailures
       /\ failures' = IF ok THEN failures ELSE failures + 1
       /\ envelopes' = Append(envelopes, StoreOutcome(task[t], ok))
  /\ task' = [task EXCEPT ![t] = IdleTask]
  /\ UNCHANGED <<mode, max_context_tokens, has_db, pattern_recognizer, store, history,
                 clock, breaker,
                 scoring, retrieved,
                 warm_cache, session_cache_warmed, performance_metrics,
                 warm_invocations, registry_writes, loaded, calls>>

\* the domains warm_domain_cache is asked for
Domains == {"database", "testing"}

\* WHERE category ILIKE %domain% OR content ILIKE %domain%: the category of
\* a row is one word, and ContentMentions lists the rows whose content
\* holds a domain's name
ContentMentions == {<<1, "database">>, <<6, "testing">>}
MatchesDomain(r, d) == r.category = d \/ <<r.id, d>> \in ContentMentions

\* a warm_domain_cache without its except clause: a failing query raises
DomainResultRaising(d, ok, n) ==
  [NoEnvelope EXCEPT !.op = "warm_domain_cache", !.domain = d, !.success = ok,
                     !.raised = ~ok,
                     !.stats = [ZeroStats EXCEPT !.items_loaded = n]]

\* what warm_domain_cache returns
DomainResult(d, ok, n) ==
  [NoEnvelope EXCEPT !.op = "warm_domain_cache", !.domain = d, !.success = ok,
                     !.stats = [ZeroStats EXCEPT !.items_loaded = n, !.error = ~ok]]

\* CAGEngine.warm_domain_cache: the rows that match the domain are fetched,
\* each is scored and pinned to the layer "domain", and the list is
\* preloaded; a failure of the fetch is caught and reported in the result.
\* Nothing is written before the fetch, so the call is one step at the
\* moment its fetch completes.
WarmDomainCache(sequential) ==
  /\ mode = "direct"
  /\ sequential => AllIdle
  /\ Started < MaxCalls
  /\ \E d \in Domains, ok \in BOOLEAN :
       LET Matches(r) == MatchesDomain(r, d)
           items == Pinned(mode, MapSeq(Select(store, Matches, 10), DirectRow), "domain")
       IN  /\ ~ok => failures < MaxFailures
           /\ failures' = IF ok THEN failures ELSE failures + 1
           /\ warm_cache' = IF ok THEN preload_to_context(mode, warm_cache, items,
                                                          clock + 1).cache
                                  ELSE warm_cache
           /\ envelopes' = Append(envelopes,
                                  DomainResult(d, ok, IF ok THEN Len(items) ELSE 0))
  /\ clock' = clock + 1   \* the awaited client call took its time
  /\ UNCHANGED <<mode, max_context_tokens, has_db, pattern_recognizer, store, history,
                 breaker,
                 scoring, retrieved,
                 session_cache_warmed, performance_metrics, task,
                 warm_invocations, registry_writes, loaded, calls>>

\* CacheWarmingEngine.clear_cache (cag_components.py): self.warm_cache.clear()
ClearCache(sequential) ==
  /\ mode = "components"
  /\ sequential => AllIdle
  /\ warm_cache # EmptyCache
  /\ warm_cache' = EmptyCache
  /\ UNCHANGED <<mode, max_context_tokens, has_db, pattern_recognizer, store, history,
                 clock, breaker,
                 scoring, retrieved,
                 session_cache_warmed, performance_metrics, task,
                 warm_invocations, registry_writes, envelopes, loaded, calls, failures>>

\* the caller awaits each call before it makes the next
Next ==
  \/ \E t \in Tasks :
       \/ StartQuery(t, TRUE)
       \/ StartWarm(t, TRUE)
       \/ WarmStep(t)
       \/ LoadContext(t)
       \/ StoreStep(t)
  \/ WarmDomainCache(TRUE)
  \/ ClearCache(TRUE)

Spec == Init /\ [][Next]_vars

\* an engine that forgets a session when a query of that session is cancelled
RolledBackOnCancel(registry, tk) ==
  [s \in DOMAIN registry \ {tk.session} |-> registry[s]]

\* the registry when process_query is cancelled: CancelledError is not an
\* Exception, no except clause of the engine catches it, and no finally
\* clause touches session_cache_warmed
RegistryAfterCancel(registry, tk) == registry

\* The caller cancels a process_query that is suspended in an await:
\* CancelledError is raised at the suspension point and leaves process_query.
\* pc "warm" is an await of a warming phase, "ctx" the awaits of
\* load_context_for_query, "store" the await of the write-back.
Cancel(t) ==
  /\ task[t].op = "process_query"
  /\ task[t].pc \in {"warm", "ctx", "store"}
  /\ envelopes' = Append(envelopes,
                     [RaisedEnvelope(task[t]) EXCEPT !.cancelled_at = task[t].pc])
  /\ session_cache_warmed' = RegistryAfterCancel(session_cache_warmed, task[t])
  /\ task' = [task EXCEPT ![t] = IdleTask]
  /\ UNCHANGED <<mode, max_context_tokens, has_db, pattern_recognizer, store, history,
                 clock, breaker, scoring, retrieved,
                 warm_cache, performance_metrics, warm_invocations, registry_writes,
                 loaded, calls, failures>>

\* the calls are issued one after another, and the caller may cancel the
\* call it is waiting for
NextCancel ==
  \/ Next
  \/ \E t \in Tasks : Cancel(t)

SpecCancel == Init /\ [][NextCancel]_vars

\* the calls overlap: a caller starts a call while others are suspended.
\* Overlap is explored over the stores made of the first rows of the pool.
InitOverlap == Init /\ store \subseteq 1..MaxStore

NextOverlap ==
  \/ \E t \in Tasks :
       \/ StartQuery(t, FALSE)
       \/ StartWarm(t, FALSE)
       \/ WarmStep(t)
       \/ LoadContext(t)
       \/ StoreStep(t)
  \/ WarmDomainCache(FALSE)
  \/ ClearCache(FALSE)

SpecOverlap == InitOverlap /\ [][NextOverlap]_vars

-----------------------------------------------------------------------------
(* load_context_for_query on its own: a context manager of any variant,    *)
(* constructed with any budget, is asked for one context.                  *)

\* the budgets a manager is constructed with, in tokens
MaxTokenChoices == {0, 1100, 1200, DefaultMaxTokens}

InitCtx ==
  /\ mode \in {"direct", "mcp", "components"}
  /\ max_context_tokens \in MaxTokenChoices
  /\ has_db \in (IF mode = "mcp" THEN {TRUE} ELSE BOOLEAN)
  /\ pattern_recognizer = FALSE
  /\ store \in Stores
  /\ history \in {[s \in Sessions |-> IF s = "S1" THEN row ELSE NoHistory] :
                    row \in (IF mode = "direct" THEN HistoryRows ELSE {NoHistory})}
  /\ scoring = NoScoring
  /\ breaker = NewBreaker(5, 60)
  /\ Constructed

\* the inputs a variant's loaders read
CtxQueries(m)  == IF m = "direct" THEN Queries ELSE {{}}
CtxSessions(m) == IF m = "mcp" THEN {"S1"} ELSE Sessions
CtxProjects(m) == IF m = "components" THEN ProjectRows ELSE {NoProject}
CtxKnown(m)    == IF m = "components" THEN BOOLEAN ELSE {FALSE}
CtxInsights(m) == IF m = "components" THEN InsightRows ELSE {<<>>}

LoadContextForQuery ==
  /\ loaded = NoLoad
  /\ \E sid \in CtxSessions(mode), q \in CtxQueries(mode), project \in CtxProjects(mode),
        known \in CtxKnown(mode), insights \in CtxInsights(mode),
        F \in FailureSets(MaxFailures) :
     \E r \in {load_context_for_query(mode,
                 Env(store, sid, q, history[sid], project, known, insights),
                 has_db, max_context_tokens, Oks(F))} :
       /\ PossibleFailures(mode, F, has_db, max_context_tokens, r)
       /\ loaded' = [context |-> r.context, full |-> r.full,
                     raised |-> r.raised, failed |-> F]
  /\ UNCHANGED <<mode, max_context_tokens, has_db, pattern_recognizer, store, history,
                 clock, breaker,
                 scoring, retrieved,
                 warm_cache, session_cache_warmed, performance_metrics, task,
                 warm_invocations, registry_writes, envelopes, calls, failures>>

NextCtx == LoadContextForQuery

SpecCtx == InitCtx /\ [][NextCtx]_vars

-----------------------------------------------------------------------------
(* The scorer and the classifier on their own: a warmer of any variant is  *)
(* handed one item and scores it, now and later.                           *)

MaxScores == 2   \* calls of the scorer on the item
MaxDays   == 2   \* days the clock advances

InitScore ==
  /\ mode \in {"direct", "mcp", "components"}
  /\ max_context_tokens = DefaultMaxTokens
  /\ has_db = TRUE
  /\ pattern_recognizer = FALSE
  /\ store = {}
  /\ history = [s \in Sessions |-> NoHistory]
  /\ scoring \in {[NoScoring EXCEPT !.item = it] : it \in ScoreItems}
  /\ breaker = NewBreaker(5, 60)
  /\ Constructed

\* calculate_cache_priority(item) and determine_cache_layer(item) are called
ScoreItem ==
  /\ Len(scoring.results) < MaxScores
  /\ scoring' = [scoring EXCEPT
                   !.results = Append(@, Score(mode, scoring.item, scoring.now))]
  /\ UNCHANGED <<mode, max_context_tokens, has_db, pattern_recognizer, store, history,
                 clock, breaker,
                 retrieved, warm_cache, session_cache_warmed, performance_metrics,
                 task, warm_invocations, registry_writes, envelopes, loaded, calls,
                 failures>>

\* a day passes: datetime.now() returns the next day
Tick ==
  /\ scoring.now < MaxDays
  /\ scoring' = [scoring EXCEPT !.now = @ + 1]
  /\ UNCHANGED <<mode, max_context_tokens, has_db, pattern_recognizer, store, history,
                 clock, breaker,
                 retrieved, warm_cache, session_cache_warmed, performance_metrics,
                 task, warm_invocations, registry_writes, envelopes, loaded, calls,
                 failures>>

NextScore == ScoreItem \/ Tick

SpecScore == InitScore /\ [][NextScore]_vars

-----------------------------------------------------------------------------
(* The warm cache on its own: lists of items are preloaded into the cache  *)
(* of a warmer, and the cache is read back by layer.                       *)

MaxBatch == 11   \* items of the longest list that is preloaded

BatchSizes == {1, 5, MaxBatch}
BatchTypes == {"procedural", "experiential"}

\* n rows of one type, created on successive days
BatchRows(n, t) ==
  [i \in 1..n |-> Row(i, t, "general", 30 + i, 0, i, FALSE, <<1>>, <<1>>)]

\* the list a caller hands to preload_to_context: scored and classified
\* items for cag_cache_warmer.py, raw rows for cag_components.py
Batch(m, n, t) ==
  IF m = "components" THEN MapSeq(BatchRows(n, t), ComponentsRow)
  ELSE Classified(m, MapSeq(BatchRows(n, t), DirectRow))

InitCache ==
  /\ mode \in {"direct", "components"}
  /\ max_context_tokens = DefaultMaxTokens
  /\ has_db = TRUE
  /\ pattern_recognizer = FALSE
  /\ store = {}
  /\ history = [s \in Sessions |-> NoHistory]
  /\ scoring = NoScoring
  /\ breaker = NewBreaker(5, 60)
  /\ Constructed

\* preload_to_context(knowledge_items)
PreloadToContext ==
  /\ \E n \in BatchSizes, t \in BatchTypes :
       warm_cache' = preload_to_context(mode, warm_cache, Batch(mode, n, t),
                                        clock).cache
  /\ UNCHANGED <<mode, max_context_tokens, has_db, pattern_recognizer, store, history,
                 clock, breaker,
                 scoring, retrieved, session_cache_warmed, performance_metrics,
                 task, warm_invocations, registry_writes, envelopes, loaded, calls,
                 failures>>

\* get_cached_knowledge(layer) and get_cached_knowledge(), limit left at its
\* default
GetCachedKnowledge ==
  /\ \E l \in Layers \cup {"none"} :
       retrieved' = [layer |-> l, from |-> warm_cache, called |-> TRUE,
                     items |-> get_cached_knowledge(mode, warm_cache, l, DefaultLimit)]
  /\ UNCHANGED <<mode, max_context_tokens, has_db, pattern_recognizer, store, history,
                 clock, breaker,
                 scoring, warm_cache, session_cache_warmed, performance_metrics,
                 task, warm_invocations, registry_writes, envelopes, loaded, calls,
                 failures>>

NextCache == PreloadToContext \/ GetCachedKnowledge

SpecCache == InitCache /\ [][NextCache]_vars

-----------------------------------------------------------------------------
(* The circuit breaker of cag_production_system.py on its own: a breaker   *)
(* constructed with any threshold and timeout is called in any order while *)
(* time passes.                                                            *)

MaxFailureCount == 4   \* failures a breaker counts before it is reset
MaxClock        == 4   \* ticks the clock advances

Thresholds == {1, 2, 3}     \* failure_threshold
Timeouts   == {0, 1, 2}     \* recovery_timeout, in ticks

\* CircuitBreaker.can_execute at time  now
can_execute(b, now) ==
  IF b.state = "closed"
  THEN [b EXCEPT !.last = [op |-> "can_execute", from |-> b.state,
                           returned |-> TRUE, elapsed |-> 0]]
  ELSE IF b.state = "open"
  THEN LET elapsed == now - b.last_failure_time[1]
       IN  IF elapsed > b.recovery_timeout
           THEN [b EXCEPT !.state = "half-open",
                          !.last = [op |-> "can_execute", from |-> b.state,
                                    returned |-> TRUE, elapsed |-> elapsed]]
           ELSE [b EXCEPT !.last = [op |-> "can_execute", from |-> b.state,
                                    returned |-> FALSE, elapsed |-> elapsed]]
  ELSE [b EXCEPT !.last = [op |-> "can_execute", from |-> b.state,
                           returned |-> TRUE, elapsed |-> 0]]

\* a record_success that closes the breaker and keeps the failures counted
RecordSuccessKeepingCount(b) ==
  [b EXCEPT !.state = "closed",
            !.last = [NotCalled EXCEPT !.op = "record_success", !.from = b.state]]

\* CircuitBreaker.record_success
record_success(b) ==
  [b EXCEPT !.failure_count = 0, !.state = "closed",
            !.last = [NotCalled EXCEPT !.op = "record_success", !.from = b.state]]

\* CircuitBreaker.record_failure at time  now
record_failure(b, now) ==
  [b EXCEPT !.failure_count = @ + 1,
            !.last_failure_time = <<now>>,
            !.state = IF b.failure_count + 1 >= b.failure_threshold THEN "open" ELSE @,
            !.last = [NotCalled EXCEPT !.op = "record_failure", !.from = b.state]]

InitBreaker ==
  /\ mode = "direct"
  /\ max_context_tokens = DefaultMaxTokens
  /\ has_db = TRUE
  /\ pattern_recognizer = FALSE
  /\ store = {}
  /\ history = [s \in Sessions |-> NoHistory]
  /\ scoring = NoScoring
  /\ breaker \in {NewBreaker(th, rt) : th \in Thresholds, rt \in Timeouts}
  /\ Constructed

CanExecute ==
  /\ breaker' = can_execute(breaker, clock)
  /\ UNCHANGED <<mode, max_context_tokens, has_db, pattern_recognizer, store, history,
                 clock, scoring, retrieved, warm_cache, session_cache_warmed,
                 performance_metrics, task, warm_invocations, registry_writes,
                 envelopes, loaded, calls, failures>>

RecordSuccess ==
  /\ breaker' = record_success(breaker)
  /\ UNCHANGED <<mode, max_context_tokens, has_db, pattern_recognizer, store, history,
                 clock, scoring, retrieved, warm_cache, session_cache_warmed,
                 performance_metrics, task, warm_invocations, registry_writes,
                 envelopes, loaded, calls, failures>>

RecordFailure ==
  /\ breaker.failure_count < MaxFailureCount
  /\ breaker' = record_failure(breaker, clock)
  /\ UNCHANGED <<mode, max_context_tokens, has_db, pattern_recognizer, store, history,
                 clock, scoring, retrieved, warm_cache, session_cache_warmed,
                 performance_metrics, task, warm_invocations, registry_writes,
                 envelopes, loaded, calls, failures>>

\* time passes between two calls
Elapse ==
  /\ clock < MaxClock
  /\ clock' = clock + 1
  /\ UNCHANGED <<mode, max_context_tokens, has_db, pattern_recognizer, store, history,
                 breaker, scoring, retrieved, warm_cache, session_cache_warmed,
                 performance_metrics, task, warm_invocations, registry_writes,
                 envelopes, loaded, calls, failures>>

NextBreaker == CanExecute \/ RecordSuccess \/ RecordFailure \/ Elapse

SpecBreaker == InitBreaker /\ [][NextBreaker]_vars

-----------------------------------------------------------------------------
(* Properties.                                                             *)

\* the envelopes process_query has returned
Returned == {i \in 1..Len(envelopes) : envelopes[i].op = "process_query"
                                        /\ ~envelopes[i].raised}

\* C1: for process_query calls issued one after another (Spec), the warmer
\* is executed at most once per session_id.
WarmedAtMostOncePerSession ==
  mode \in {"direct", "mcp"} => \A s \in Sessions : warm_invocations[s] <= 1

\* C2: when process_query calls for one session overlap (SpecOverlap) on the
\* direct engine and no client call fails, the warmer runs once for the
\* session and the registry is written once.
OverlappingCallsWarmOnce ==
  (mode = "direct" /\ failures = 0) =>
     \A s \in Sessions : /\ warm_invocations[s] <= 1
                         /\ registry_writes[s] <= 1

\* C3: every entry held in the warm cache has priority >= the threshold.
CacheEntriesPassThreshold ==
  \A k \in DOMAIN warm_cache : warm_cache[k].priority >= cache_priority_threshold

\* C4: the envelope of the first process_query of a session reports
\* cache_hit = false, the envelope of a following one reports cache_hit =
\* true, and cached_knowledge_items does not decrease between the two.
FirstMissThenHit ==
  \A i \in Returned :
    /\ envelopes[i].ordinal = 1 => ~envelopes[i].cache_hit
    /\ \A j \in Returned :
         (j < i /\ envelopes[j].session = envelopes[i].session) =>
           /\ envelopes[i].cache_hit
           /\ envelopes[j].cached_knowledge_items <= envelopes[i].cached_knowledge_items

\* the keys the warmer writes for a session: the gated items of all phases
WarmKeys(sid, uc) ==
  {CacheKey(ci.cache_layer, ci.id) :
     ci \in {x \in UNION {Range(PhaseItems(mode, WarmPhases(mode)[i], store, sid, uc,
                                           pattern_recognizer)) :
                            i \in 1..Len(WarmPhases(mode))} : PassesGate(x)}}

\* C5: a process_query that invoked the warmer starts loading the context
\* only when the warmer has completed all its phases and cache writes.
WarmingCompletesBeforeContext ==
  \A t \in Tasks :
    (task[t].pc \in {"ctx", "store"} /\ task[t].phase # 0) =>
      /\ task[t].stats.phases_completed = Len(WarmPhases(mode))
      /\ task[t].session \in DOMAIN session_cache_warmed
      /\ WarmKeys(task[t].session, task[t].uc) \subseteq DOMAIN warm_cache

\* C5 witness: a query that warmed the cache is about to load its context
WarmedQueryAboutToLoad ==
  \E t \in Tasks : /\ task[t].pc = "ctx" /\ task[t].phase # 0
                   /\ task[t].stats.items_loaded > 0
                   /\ DOMAIN warm_cache # {}

\* a context was loaded and compiled
Loaded == loaded # NoLoad /\ ~loaded.raised

Emitted(context) == {l \in DOMAIN context : context[l] # <<>>}

RECURSIVE LayerWords(_, _)
LayerWords(context, ls) ==
  IF ls = {} THEN 0
  ELSE LET l == CHOOSE x \in ls : TRUE
       IN  Words(context[l]) + LayerWords(context, ls \ {l})

LayersWithinTwiceAllocation ==
  Loaded => \A l \in DOMAIN loaded.context :
              count_tokens(mode, loaded.context[l]) <= 2 * 10 * Allocation(l)

\* remaining = max(0, max_context_tokens - sum of tokens(layer_i), i = 1..6)
ClaimedRemaining ==
  LET six == Before(loaded.context, "dynamic")
  IN  Max(0, 10 * max_context_tokens - UsedTokens(mode, six, DOMAIN six))

\* C8: the dynamic layer is fetched exactly when remaining >= 1000, and is
\* the literal "Limited space for dynamic content" in every other case.
DynamicFetchedExactlyWhenRoom ==
  Loaded => IF ClaimedRemaining >= 10 * DynamicThreshold
            THEN loaded.context["dynamic"] # <<LimitedSpace>>
            ELSE loaded.context["dynamic"] = <<LimitedSpace>>

\* the header line  === <LAYER> CONTEXT ===
CanonicalHeader(l) == Line("header", Upper(l), 0, 0, 4)

RECURSIVE CanonicalForm(_, _)
CanonicalForm(context, ls) ==
  IF ls = <<>> THEN <<>>
  ELSE (IF Head(ls) \in Emitted(context)
        THEN <<CanonicalHeader(Head(ls))>> \o context[Head(ls)] \o <<Lit("", 0)>>
        ELSE <<>>)
       \o CanonicalForm(context, Tail(ls))

\* C9: the compiled context is the non-empty layers in canonical order,
\* each as its header line, its body and a blank line.
CompiledInCanonicalForm ==
  Loaded => loaded.full = CanonicalForm(loaded.context, ContextLayer)

\* C10: when the client fetch of a context layer fails, the layer's body is
\* a diagnostic string, every layer is loaded, the failed layer is emitted
\* with its header, and process_query returns with context_loaded = true.
LayerFailureIsContained ==
  /\ loaded.failed # {} =>
       /\ ~loaded.raised
       /\ DOMAIN loaded.context = Range(LoadOrder)
       /\ \A l \in loaded.failed :
            /\ loaded.context[l][1].kind = "diagnostic"
            /\ \E i \in 1..(Len(loaded.full) - 1) :
                 /\ loaded.full[i] = Header(mode, l)
                 /\ loaded.full[i + 1] = loaded.context[l][1]
  /\ \A i \in 1..Len(envelopes) :
       envelopes[i].failed # {} => ~envelopes[i].raised /\ envelopes[i].context_loaded

\* a call that was aborted by an exception raised while the cache was warmed
\* (a call aborted while the context was loaded names the failed layers)
AbortedInWarming(e) == e.raised /\ e.failed = {}

\* C11: a failing fetch of a warming phase aborts nothing: no call raises out
\* of warm_cache_for_session, and every record the warmer returns or the
\* engine registers counts every phase of the variant as attempted.
PhaseFailureDegradesToZeroItems ==
  /\ \A i \in 1..Len(envelopes) : ~AbortedInWarming(envelopes[i])
  /\ \A i \in 1..Len(envelopes) :
       (envelopes[i].op = "warm" /\ ~envelopes[i].stats.error) =>
          envelopes[i].stats.phases_completed = Len(WarmPhases(mode))
  /\ \A s \in DOMAIN session_cache_warmed :
       session_cache_warmed[s].phases_completed = Len(WarmPhases(mode))

\* C12: when the write-back of a query fails, process_query still returns:
\* the caller gets the response prepared before the write-back, unchanged
\* and not an exception, and the metrics already count the query and are
\* left as they are.
WriteBackFailureIsSwallowed ==
  [][\A t \in Tasks :
       (task[t].pc = "store" /\ failures' > failures) =>
          /\ envelopes' = Append(envelopes, task[t].envelope)
          /\ ~task[t].envelope.raised
          /\ task[t].envelope.context_loaded
          /\ performance_metrics' = performance_metrics
          /\ performance_metrics.total_queries = Cardinality(Returned) + 1]_vars

\* C12 witness: the only client failure of the run was the write-back of a
\* query whose envelope was returned
ReturnedAfterFailedWriteBack ==
  /\ mode = "mcp" /\ failures = 1 /\ Len(envelopes) = 1
  /\ envelopes[1].op = "process_query" /\ ~envelopes[1].raised
  /\ envelopes[1].failed = {} /\ envelopes[1].context_loaded
  /\ performance_metrics.total_queries = 1

\* C13: with an empty store the warmer reports items_loaded = 0 and
\* phases_completed = 4 and leaves the warm cache empty.
EmptyStoreWarmsFourPhases ==
  store = {} =>
    /\ warm_cache = EmptyCache
    /\ \A s \in DOMAIN session_cache_warmed :
         /\ session_cache_warmed[s].items_loaded = 0
         /\ session_cache_warmed[s].phases_completed = 4
    /\ \A i \in 1..Len(envelopes) :
         (envelopes[i].op = "warm" /\ ~envelopes[i].raised) =>
            /\ envelopes[i].stats.items_loaded = 0
            /\ envelopes[i].stats.phases_completed = 4

\* C14: the first warming of an engine starts from an empty cache, and the
\* items_loaded it reports is the number of entries it put into the cache.
ItemsLoadedIsEntriesCached ==
  SumOver(warm_invocations, Sessions) = 1 =>
    /\ \A s \in DOMAIN session_cache_warmed :
         session_cache_warmed[s].items_loaded = session_cache_warmed[s].cache_size
    /\ \A i \in 1..Len(envelopes) :
         (envelopes[i].op = "warm" /\ ~envelopes[i].stats.error) =>
            envelopes[i].stats.items_loaded = envelopes[i].stats.cache_size

\* C15: in every step of process_query, warm_cache_for_session and
\* warm_domain_cache every key of the warm cache stays in it; only a step of
\* clear_cache removes keys.
NoKeyLeavesTheCache ==
  [][ClearCache(FALSE) \/ DOMAIN warm_cache \subseteq DOMAIN warm_cache']_vars

\* C15 witness: a process_query warmed the cache and a warm_domain_cache
\* after it added further keys to the ones it found
CacheGrewOverTwoCalls ==
  /\ Len(envelopes) = 2
  /\ envelopes[1].op = "process_query" /\ envelopes[1].cached_knowledge_items > 0
  /\ envelopes[2].op = "warm_domain_cache" /\ envelopes[2].success
  /\ Cardinality(DOMAIN warm_cache) > envelopes[1].cached_knowledge_items

\* the entries of the cache whose key begins with "L:"
KeysOfLayer(cache, l) == {k \in DOMAIN cache : k[1] = l}

\* C16: get_cached_knowledge(layer=L) returns exactly the entries of the
\* cache whose keys begin with "L:", none missing and none of another layer.
RetrievalIsExactlyTheLayer ==
  (retrieved.called /\ retrieved.layer \in Layers) =>
     Range(retrieved.items) = KeysOfLayer(retrieved.from, retrieved.layer)

\* the latest call is a successful warm_domain_cache, and it has returned
DomainJustWarmed ==
  /\ AllIdle
  /\ envelopes # <<>>
  /\ envelopes[Len(envelopes)].op = "warm_domain_cache"
  /\ envelopes[Len(envelopes)].success

\* C17: when warm_domain_cache(d) has returned, get_cached_knowledge("domain")
\* holds only items whose category or content matched d, each under layer
\* "domain" with priority >= the threshold.
DomainLayerHoldsOnlyMatches ==
  DomainJustWarmed =>
    \A k \in Range(get_cached_knowledge(mode, warm_cache, "domain", DefaultLimit)) :
       /\ k[1] = "domain"
       /\ MatchesDomain(Pool[k[2]], envelopes[Len(envelopes)].domain)
       /\ warm_cache[k].priority >= cache_priority_threshold

\* the classifier as specified: mode A is cag_cache_warmer.py, mode B the
\* variants that read importance_score
SpecifiedLayer(m, item) ==
  LET t == Get(item, "knowledge_type", "factual")
  IN  IF m # "direct" /\ Get(item, "importance_score", 50) > 80 THEN "strategic"
      ELSE IF t \in {"procedural", "technical_discovery"} THEN "domain"
      ELSE IF t = "experiential" THEN "experience"
      ELSE IF t = "contextual" THEN "session"
      ELSE "dynamic"

\* C18: the classifier returns the layer of the first matching rule; mode A
\* never returns strategic, and no variant returns system, project or
\* response.
ClassifierIsFirstMatchWins ==
  \A i \in 1..Len(scoring.results) :
    /\ scoring.results[i].layer = SpecifiedLayer(mode, scoring.item)
    /\ scoring.results[i].layer \notin {"system", "project", "response"}
    /\ mode = "direct" => scoring.results[i].layer # "strategic"

\* C19: every priority calculate_cache_priority returns lies in [0, 1].
PriorityWithinUnitInterval ==
  \A i \in 1..Len(scoring.results) :
    /\ scoring.results[i].priority >= 0
    /\ scoring.results[i].priority <= PScale

\* C19 witness: an item created later than the clock shows was scored, and
\* its priority is the upper end of the interval
FutureItemScoredOne ==
  \E i \in 1..Len(scoring.results) :
    /\ "created_at" \in DOMAIN scoring.item
    /\ scoring.item.created_at > scoring.results[i].at
    /\ scoring.results[i].priority = PScale

\* C20: two calls of the scorer and of the classifier with the same item
\* return the same priority and the same layer.
ScoringIsPure ==
  \A i, j \in 1..Len(scoring.results) :
    /\ scoring.results[i].priority = scoring.results[j].priority
    /\ scoring.results[i].layer = scoring.results[j].layer

\* the responses whose metrics update has run: the envelopes returned and the
\* responses of the calls suspended in their write-back
Counted ==
  [hit  |-> Cardinality({i \in Returned : envelopes[i].cache_hit})
            + Cardinality({t \in Tasks : task[t].pc = "store"
                                          /\ task[t].envelope.cache_hit}),
   miss |-> Cardinality({i \in Returned : ~envelopes[i].cache_hit})
            + Cardinality({t \in Tasks : task[t].pc = "store"
                                          /\ ~task[t].envelope.cache_hit})]

\* C21: however process_query calls overlap, the metrics count every call
\* once: cache_hits and cache_misses are the numbers of responses with
\* cache_hit true and false, and total_queries is their sum; when all calls
\* have completed, total_queries is the number of envelopes returned.
MetricsCountEveryQueryOnce ==
  /\ performance_metrics.cache_hits = Counted.hit
  /\ performance_metrics.cache_misses = Counted.miss
  /\ performance_metrics.total_queries = Counted.hit + Counted.miss
  /\ AllIdle => performance_metrics.total_queries = Cardinality(Returned)

\* C21 witness: two process_query calls for one session overlapped (both
\* warmed, without any failure) and both have returned
TwoOverlappingQueriesReturned ==
  /\ AllIdle /\ failures = 0 /\ Cardinality(Returned) = 2
  /\ \E s \in Sessions : warm_invocations[s] = 2
  /\ performance_metrics.total_queries = 2

\* the engine is asked, in this step, to process a query of session s
Requested(t, s) ==
  /\ mode \in {"direct", "mcp"}
  /\ task[t].pc = "idle" /\ task'[t].pc # "idle" /\ task'[t].session = s

SpecifiedTable(t) ==
  IF t = "procedural" THEN <<9, 8>>
  ELSE IF t = "technical_discovery" THEN <<8, 9>>
  ELSE IF t = "experiential" THEN <<7, 7>>
  ELSE IF t = "contextual" THEN <<6, 6>>
  ELSE IF t = "relational" THEN <<4, 4>>
  ELSE <<5, 5>>                      \* factual, and every unknown type

\* the score of the specification before clamping, in units of 1/PScale,
\* for an item scored on day  now : recency is in thirtieths, frequency and
\* the table in tenths, importance in hundredths
SpecifiedScore(m, item, now) ==
  LET age        == IF "created_at" \in DOMAIN item THEN now - item.created_at ELSE 0
      recency    == IF age >= 30 THEN 0 ELSE 30 - age
      access     == IF "access_count" \in DOMAIN item THEN item.access_count ELSE 1
      frequency  == IF access >= 10 THEN 10 ELSE access
      importance == IF "importance_score" \in DOMAIN item
                    THEN item.importance_score ELSE 50
      row        == SpecifiedTable(IF "knowledge_type" \in DOMAIN item
                                   THEN item.knowledge_type ELSE "factual")
  IN  IF m = "direct"
      THEN (3 * PScale * recency) \div 300 + (25 * PScale * row[2]) \div 1000
           + (25 * PScale * frequency) \div 1000 + (2 * PScale * row[1]) \div 100
      ELSE (4 * PScale * importance) \div 1000 + (3 * PScale * row[1]) \div 100
           + (3 * PScale * recency) \div 300

\* {procedural, importance 40, created on day 0, access_count 5}
ExampleItem ==
  [k \in {"knowledge_type", "importance_score", "access_count", "usage_count",
          "created_at"} |->
     CASE k = "knowledge_type"   -> "procedural"
       [] k = "importance_score" -> 40
       [] k = "created_at"       -> 0
       [] OTHER                  -> 5]

\* C23: the scorers of the direct and the mcp warmer return the minimum of 1
\* and the specified weighted sum (mode A for the direct warmer, mode B for
\* the mcp warmer); the example item scored on the day it was created gets
\* 0.805 in mode A and 0.73 in mode B.
ScorerComputesTheSpecifiedSum ==
  mode \in {"direct", "mcp"} =>
    \A i \in 1..Len(scoring.results) :
      LET r == scoring.results[i]
      IN  /\ r.priority = Min(PScale, SpecifiedScore(mode, scoring.item, r.at))
          /\ (scoring.item = ExampleItem /\ r.at = 0) =>
               r.priority * 1000 = (IF mode = "direct" THEN 805 ELSE 730) * PScale

\* C23 witness: both scorers have scored the example item on the day it was
\* created, below the clamp
ExampleItemScored ==
  /\ mode \in {"direct", "mcp"}
  /\ scoring.item = ExampleItem
  /\ Len(scoring.results) > 0 /\ scoring.results[1].at = 0
  /\ scoring.results[1].priority < PScale

\* the latest call was a process_query, and it returned its envelope
QueryJustReturned ==
  /\ AllIdle /\ Len(envelopes) > 0
  /\ envelopes[Len(envelopes)].op = "process_query"
  /\ ~envelopes[Len(envelopes)].raised

\* C24: the envelope process_query returns has one boolean per layer in
\* context_layers, true exactly for the layers the compilation of
\* full_context emitted, and false for response.
ContextLayersTellWhatWasEmitted ==
  QueryJustReturned =>
    LET e == envelopes[Len(envelopes)]
    IN  /\ DOMAIN e.context_layers = Layers
        /\ \A l \in Layers : e.context_layers[l] <=> l \in Emitted(loaded.context)
        /\ ~e.context_layers["response"]

\* the items phase i of a warming hands to preload_to_context that pass its
\* gate, for the session and user context of task record tk
PhaseWrites(tk, i) ==
  {ci \in Range(PhaseItems(mode, WarmPhases(mode)[i], store, tk.session, tk.uc,
                           pattern_recognizer)) : PassesGate(ci)}

KeyOf(ci) == CacheKey(ci.cache_layer, ci.id)

\* task t completes a warming phase in this step
PhaseCompletes(t) ==
  /\ mode \in {"direct", "mcp"}
  /\ task[t].pc = "warm" /\ task'[t].pc \in {"warm", "ctx"}
  /\ task'[t].phase > task[t].phase

\* C25: when a warming phase completes, every key it produces holds one
\* entry, with the values and the time of this phase, whatever an earlier
\* phase had written under that key; entries under other keys, among them
\* the same item under another layer, stay as they were.
LaterPhaseOverwrites ==
  [][\A t \in Tasks :
       PhaseCompletes(t) =>
         LET written == PhaseWrites(task[t], task[t].phase)
             keys    == {KeyOf(ci) : ci \in written}
         IN  /\ DOMAIN warm_cache' = DOMAIN warm_cache \cup keys
             /\ \A k \in keys :
                  /\ warm_cache'[k].loaded_at = clock'
                  /\ \E ci \in written :
                       /\ KeyOf(ci) = k
                       /\ warm_cache'[k].content = ci.content
                       /\ warm_cache'[k].title = ci.title
                       /\ warm_cache'[k].knowledge_type = ci.knowledge_type
                       /\ warm_cache'[k].priority = ci.cache_priority
             /\ \A k \in DOMAIN warm_cache \ keys : warm_cache'[k] = warm_cache[k]]_vars

\* C25 witness: in the first warming of the direct engine, phases 1 and 2
\* both produced the key domain:id and the entry is the one phase 2 wrote;
\* phase 4 has pinned the same item to strategic, so it is held under both
\* layers
OverwrittenAndHeldUnderTwoLayers ==
  \E t \in Tasks, id \in store :
    /\ mode = "direct" /\ task[t].pc = "ctx" /\ task[t].phase > 4
    /\ Started = 1 /\ failures = 0
    /\ CacheKey("domain", id) \in {KeyOf(ci) : ci \in PhaseWrites(task[t], 1)}
                                 \cap {KeyOf(ci) : ci \in PhaseWrites(task[t], 2)}
    /\ CacheKey("strategic", id) \in {KeyOf(ci) : ci \in PhaseWrites(task[t], 4)}
    /\ {CacheKey("domain", id), CacheKey("strategic", id)} \subseteq DOMAIN warm_cache
    /\ warm_cache[CacheKey("domain", id)].loaded_at = 2
    /\ warm_cache[CacheKey("strategic", id)].loaded_at = 3

\* C26: a session is in the warming registry only when every phase of its
\* warming has finished: no task is suspended in a warming phase of a
\* session the registry holds, and a recorded warming completed all phases.
RegisteredOnlyWhenFullyWarmed ==
  mode \in {"direct", "mcp"} =>
    /\ \A t \in Tasks :
         task[t].pc = "warm" => task[t].session \notin DOMAIN session_cache_warmed
    /\ \A s \in DOMAIN session_cache_warmed :
         session_cache_warmed[s].phases_completed = Len(WarmPhases(mode))

\* process_query calls of session s that were cancelled while loading the
\* context, after the warming had completed
CancelledAfterWarming(s) ==
  {i \in 1..Len(envelopes) : /\ envelopes[i].cancelled_at = "ctx"
                              /\ envelopes[i].session = s}

\* C27: a cancellation of process_query while it loads the context leaves
\* the cache and the registry as the warming left them, with the session
\* registered; from then on the session stays registered, and a
\* process_query for it goes straight to the context without warming.
CancellationLeavesCacheWarmed ==
  [][\A t \in Tasks :
       /\ (task[t].pc = "ctx" /\ task'[t].pc = "idle"
            /\ envelopes'[Len(envelopes')].cancelled_at = "ctx") =>
              /\ warm_cache' = warm_cache
              /\ session_cache_warmed' = session_cache_warmed
              /\ task[t].session \in DOMAIN session_cache_warmed
       /\ \A s \in Sessions :
            CancelledAfterWarming(s) # {} =>
              /\ s \in DOMAIN session_cache_warmed
              /\ Requested(t, s) => /\ task'[t].pc = "ctx" /\ task'[t].phase = 0
                                     /\ warm_invocations' = warm_invocations
                                     /\ warm_cache' = warm_cache]_vars

\* C27 witness: the first query of a session was cancelled while loading
\* the context; the entries of its warming are in the cache, and the next
\* query of the session is loading the context without having warmed
QueryAfterCancellationSkipsWarming ==
  /\ Len(envelopes) = 1 /\ envelopes[1].cancelled_at = "ctx"
  /\ warm_cache # EmptyCache
  /\ warm_invocations[envelopes[1].session] = 1
  /\ \E t \in Tasks : /\ task[t].session = envelopes[1].session
                        /\ task[t].ordinal = 2
                        /\ task[t].pc = "ctx" /\ task[t].phase = 0

\* the warmer of task t raises in this step
WarmRaises(t) ==
  /\ mode \in {"direct", "mcp"}
  /\ task[t].pc = "warm" /\ task'[t].pc = "idle"
  /\ Len(envelopes') = Len(envelopes) + 1
  /\ envelopes'[Len(envelopes')].raised

\* C28: when warm_cache_for_session raises, the registry and the metrics
\* stay as they were and no entry leaves the cache; a process_query for a
\* session that is not in the registry invokes the warmer.
RaisedWarmingIsNotRecorded ==
  [][\A t \in Tasks :
       /\ WarmRaises(t) =>
            /\ session_cache_warmed' = session_cache_warmed
            /\ performance_metrics' = performance_metrics
            /\ \A k \in DOMAIN warm_cache :
                 k \in DOMAIN warm_cache' /\ warm_cache'[k] = warm_cache[k]
       /\ \A s \in Sessions \ DOMAIN session_cache_warmed :
            Requested(t, s) => /\ task'[t].pc = "warm"
                               /\ warm_invocations'[s] = warm_invocations[s] + 1]_vars

\* C28 witness: the first call of a session raised in a later warming phase,
\* the entries of its earlier phases are in the cache, the session is not
\* registered, and the next call of the session is warming
WarmingAgainAfterRaise ==
  /\ Len(envelopes) = 1 /\ AbortedInWarming(envelopes[1])
  /\ warm_cache # EmptyCache
  /\ envelopes[1].session \notin DOMAIN session_cache_warmed
  /\ performance_metrics.total_queries = 0
  /\ \E t \in Tasks : /\ task[t].pc = "warm" /\ task[t].ordinal = 2
                        /\ task[t].session = envelopes[1].session

\* C29: warm_domain_cache writes nothing but the warm cache: the registry,
\* the metrics and the warmer's counters are as before the call; it never
\* raises, and when its store query fails it returns success = false and
\* the cache is exactly as it was.
DomainWarmingChangesOnlyTheCache ==
  [][DomainCalls' > DomainCalls =>
       LET e == envelopes'[Len(envelopes')]
       IN  /\ e.op = "warm_domain_cache" /\ ~e.raised
           /\ session_cache_warmed' = session_cache_warmed
           /\ performance_metrics' = performance_metrics
           /\ warm_invocations' = warm_invocations
           /\ registry_writes' = registry_writes
           /\ ~e.success => warm_cache' = warm_cache]_vars

\* C29 witness: a warm_domain_cache whose store query failed has returned to
\* an engine that had warmed a session, counted its query and filled the cache
DomainWarmingFailedAfterQuery ==
  /\ Len(envelopes) = 2
  /\ envelopes[1].op = "process_query" /\ envelopes[1].cached_knowledge_items > 0
  /\ envelopes[2].op = "warm_domain_cache" /\ ~envelopes[2].success
  /\ ~envelopes[2].raised
  /\ Cardinality(DOMAIN warm_cache) = envelopes[1].cached_knowledge_items
  /\ DOMAIN session_cache_warmed = {envelopes[1].session}
  /\ performance_metrics.total_queries = 1

====
